---- MODULE Spec2Model ----
(***************************************************************************)
(* Model of infrast.py: the rule compiler (load_efficiency_rules), the     *)
(* greedy slot allocator (optimize_workplace and                           *)
(* optimize_workplace_recursive), the quota-boost selector                 *)
(* (select_fiammetta_targets) and the three-shift cycle                    *)
(* (get_optimal_assignments) of WorkplaceOptimizer.                        *)
(*                                                                         *)
(* Strings are modelled as sequences of glyphs.  An operator name is one   *)
(* glyph; a system name is a sequence of glyphs, written in pinyin:        *)
(* <<"tong","yong">> is the system name the source compares against at     *)
(* lines 491 and 560.  Efficiencies are integers and a per-slot efficiency *)
(* is the exact fraction [num, den], compared by cross-multiplication.     *)
(***************************************************************************)
EXTENDS Integers, Sequences, FiniteSets, TLC

VARIABLES
    operators,            \* self.operators: name -> [elite, own]
    efficiency_data,      \* self.efficiency_data['combination_rules'], flattened in declaration order
    efficiency_rules,     \* self.efficiency_rules: the compiled, sorted rule table
    config_data,          \* self.config_data: [Fiammetta_enable, product_requirements]
    fiammetta_enable,     \* the local fiammetta_enable of lines 809-813
    fiammetta_targets,    \* self.fiammetta_targets
    current_product,      \* workplace.current_product, by workplace index
    operator_usage,       \* operator_usage of get_optimal_assignments
    shift_used_names,     \* shift_used_names of the running shift
    control_operators,    \* control_operators of the running shift
    dormitory_operators,  \* dormitory_operators of the running shift
    shift,                \* the loop variable of line 838
    wp,                   \* index (in Workplaces) of the workplace being optimized
    pc,                   \* position of the run
    alloc,                \* the locals of the running optimize_workplace call
    result,               \* the AssignmentResult handed back by the last call
    plan,                 \* the plan of the running shift
    plans,                \* results["plans"]
    str_hash_order,       \* iteration order of a set of str in this process, once observed
    run,                  \* 1: first run, 2: second run of the pipeline
    first_plans,          \* the plans the first run returned
    rerun_kind,           \* how the second run was started
    non_trading_names     \* history: the names placed outside the trading stations in this run

vars == << operators, efficiency_data, efficiency_rules, config_data, fiammetta_enable,
           fiammetta_targets, current_product, operator_usage, shift_used_names,
           control_operators, dormitory_operators, shift, wp, pc, alloc, result,
           plan, plans, str_hash_order, run, first_plans, rerun_kind, non_trading_names >>

-----------------------------------------------------------------------------
(* Generic helpers for Python lists, dicts and strings *)

\* dict.get(key, default)
DictGet(d, k, default) == IF k \in DOMAIN d THEN d[k] ELSE default

\* {}
EmptyDict == [x \in {} |-> 0]

\* d[k] = v
DictPut(d, k, v) == [x \in (DOMAIN d) \cup {k} |-> IF x = k THEN v ELSE d[x]]

\* the set of elements of a list
Range(s) == {s[i] : i \in 1..Len(s)}

\* `needle in haystack` for two str values (glyph sequences)
IsSubstring(needle, haystack) ==
    \E i \in 0..(Len(haystack) - Len(needle)) :
        \A j \in 1..Len(needle) : haystack[i + j] = needle[j]

\* ', '.join(names)
RECURSIVE JoinNames(_)
JoinNames(names) ==
    IF Len(names) = 0 THEN <<>>
    ELSE IF Len(names) = 1 THEN <<names[1]>>
    ELSE <<names[1], ", ">> \o JoinNames(Tail(names))

\* a comparison under which a rule also moves ahead of the rules it ties with
SortKeyGreater_or_equal(a, b) ==
    \/ a.priority > b.priority
    \/ a.priority = b.priority /\ a.synergy_efficiency >= b.synergy_efficiency

\* the key of list.sort(key=lambda r: (r.priority, r.synergy_efficiency), reverse=True)
SortKeyGreater(a, b) ==
    \/ a.priority > b.priority
    \/ a.priority = b.priority /\ a.synergy_efficiency > b.synergy_efficiency

\* one insertion of a stable descending sort: r goes after every element that
\* does not compare lower than it
RECURSIVE SortInsert(_, _)
SortInsert(sorted, r) ==
    IF Len(sorted) = 0 THEN <<r>>
    ELSE IF SortKeyGreater(r, sorted[1]) THEN <<r>> \o sorted
    ELSE <<sorted[1]>> \o SortInsert(Tail(sorted), r)

\* rules.sort(key=..., reverse=True): stable, descending
RECURSIVE SortRules(_)
SortRules(rules) ==
    IF Len(rules) = 0 THEN <<>>
    ELSE SortInsert(SortRules(SubSeq(rules, 1, Len(rules) - 1)), rules[Len(rules)])

-----------------------------------------------------------------------------
(* Rule compiler: load_efficiency_rules *)

\* an operator token without a '/tier' part
NoTier == -1

\* a token whose '/tier' part is not an integer literal is taken at tier 0
ParseOperatorString_default_tier(tok) ==
    IF "tier" \notin DOMAIN tok THEN [name |-> tok.name, elite |-> 0, error |-> FALSE]
    ELSE IF tok.tier = NoTier THEN [name |-> tok.name, elite |-> 0, error |-> FALSE]
    ELSE [name |-> tok.name, elite |-> tok.tier, error |-> FALSE]

\* parse_operator_string: 'name/tier' -> (name, tier), 'name' -> (name, 0);
\* error is the ValueError int() raises for a tier part that is no integer literal
ParseOperatorString(tok) ==
    IF "tier" \notin DOMAIN tok THEN [name |-> tok.name, elite |-> 0, error |-> TRUE]
    ELSE IF tok.tier = NoTier THEN [name |-> tok.name, elite |-> 0, error |-> FALSE]
    ELSE [name |-> tok.name, elite |-> tok.tier, error |-> FALSE]

\* operators.append(name) for every token of a combo
CombinationNames(combo) == [i \in 1..Len(combo) |-> ParseOperatorString(combo[i]).name]

\* tier requirements in which the first tier given for a name is kept
RECURSIVE EliteRequirements_keep_first(_, _)
EliteRequirements_keep_first(reqs, combo) ==
    IF Len(combo) = 0 THEN reqs
    ELSE LET p == ParseOperatorString(combo[1])
         IN EliteRequirements_keep_first(
               IF p.elite > 0 /\ p.name \notin DOMAIN reqs THEN DictPut(reqs, p.name, p.elite)
               ELSE reqs,
               Tail(combo))

\* elite_requirements[name] = elite for every token with elite > 0, in order
RECURSIVE EliteRequirements(_, _)
EliteRequirements(reqs, combo) ==
    IF Len(combo) = 0 THEN reqs
    ELSE LET p == ParseOperatorString(combo[1])
         IN EliteRequirements(IF p.elite > 0 THEN DictPut(reqs, p.name, p.elite) ELSE reqs,
                              Tail(combo))

\* ControlCenterRequirement / DormitoryRequirement / PowerStationRequirement lists
RequirementList(toks) ==
    [i \in 1..Len(toks) |->
        [operator |-> ParseOperatorString(toks[i]).name,
         elite_required |-> ParseOperatorString(toks[i]).elite]]

\* the description of every apply_each rule declared in a plain rule list
GenericSingleDescription == <<"tong", "yong", "dan", "ren">>

\* f"{system_name} - {', '.join(operators)}"
SystemDescription(system_name, names) == system_name \o <<" - ">> \o JoinNames(names)

\* one declared rule -> one OperatorEfficiency
CompileRule(d) ==
    LET isList == d.form = "list"
        tokens == IF isList THEN d.combo ELSE d.base_combo \o d.combo
        names == CombinationNames(tokens)
    IN [operators |-> names,
        workplace_type |-> d.workplace_type,
        synergy_efficiency |-> d.efficiency,
        description |-> IF isList /\ d.apply_each THEN GenericSingleDescription
                        ELSE SystemDescription(d.system_name, names),
        elite_requirements |-> EliteRequirements(EmptyDict, tokens),
        requires_control_center |-> RequirementList(d.control_center),
        requires_dormitory |-> RequirementList(d.dormitory),
        requires_power_station |-> RequirementList(d.power_station),
        apply_each |-> d.apply_each,
        priority |-> d.priority,
        products |-> IF isList THEN d.product
                     ELSE IF d.has_product THEN d.product ELSE d.base_product]

\* load_efficiency_rules: compile every declared rule, then sort
LoadEfficiencyRules(decls) == SortRules([i \in 1..Len(decls) |-> CompileRule(decls[i])])

-----------------------------------------------------------------------------
(* Workplaces: load_workplaces and get_workplace_type *)

\* config_data.get('trading_stations_count', 3)
trading_stations_count == 2

\* config_data.get('manufacturing_stations_count', 3)
manufacturing_stations_count == 1

\* efficiency_data['workplaces']: the first trading and manufacturing entries
\* give the defaults; the meeting room and the power stations are listed
WorkplaceData ==
    [trading_stations |-> [max_operators |-> 2, base_efficiency |-> 100],
     manufacturing_stations |-> [max_operators |-> 2, base_efficiency |-> 100],
     meeting_room |-> [id |-> <<"meeting", "_", "room">>, max_operators |-> 1,
                       base_efficiency |-> 100],
     power_station |-> << [id |-> <<"power", "_", "1">>, max_operators |-> 1,
                           base_efficiency |-> 100],
                          [id |-> <<"power", "_", "2">>, max_operators |-> 0,
                           base_efficiency |-> 100] >>]

\* str(i + 1) in f"trading_{i + 1}"
Digit(i) == <<"1", "2", "3", "4", "5", "6", "7", "8", "9">>[i]

\* the workplaces with the meeting room visited after the power stations
Workplaces_meeting_last ==
    [i \in 1..trading_stations_count |->
        [id |-> <<"trading", "_", Digit(i)>>, category |-> "trading_stations",
         max_operators |-> WorkplaceData.trading_stations.max_operators,
         base_efficiency |-> WorkplaceData.trading_stations.base_efficiency]]
    \o [i \in 1..manufacturing_stations_count |->
        [id |-> <<"manufacturing", "_", Digit(i)>>, category |-> "manufacturing_stations",
         max_operators |-> WorkplaceData.manufacturing_stations.max_operators,
         base_efficiency |-> WorkplaceData.manufacturing_stations.base_efficiency]]
    \o [i \in 1..Len(WorkplaceData.power_station) |->
        [id |-> WorkplaceData.power_station[i].id, category |-> "power_station",
         max_operators |-> WorkplaceData.power_station[i].max_operators,
         base_efficiency |-> WorkplaceData.power_station[i].base_efficiency]]
    \o << [id |-> WorkplaceData.meeting_room.id, category |-> "meeting_room",
           max_operators |-> WorkplaceData.meeting_room.max_operators,
           base_efficiency |-> WorkplaceData.meeting_room.base_efficiency] >>

\* load_workplaces, the four lists concatenated in the order the cycle visits them
Workplaces ==
    [i \in 1..trading_stations_count |->
        [id |-> <<"trading", "_", Digit(i)>>, category |-> "trading_stations",
         max_operators |-> WorkplaceData.trading_stations.max_operators,
         base_efficiency |-> WorkplaceData.trading_stations.base_efficiency]]
    \o [i \in 1..manufacturing_stations_count |->
        [id |-> <<"manufacturing", "_", Digit(i)>>, category |-> "manufacturing_stations",
         max_operators |-> WorkplaceData.manufacturing_stations.max_operators,
         base_efficiency |-> WorkplaceData.manufacturing_stations.base_efficiency]]
    \o << [id |-> WorkplaceData.meeting_room.id, category |-> "meeting_room",
           max_operators |-> WorkplaceData.meeting_room.max_operators,
           base_efficiency |-> WorkplaceData.meeting_room.base_efficiency] >>
    \o [i \in 1..Len(WorkplaceData.power_station) |->
        [id |-> WorkplaceData.power_station[i].id, category |-> "power_station",
         max_operators |-> WorkplaceData.power_station[i].max_operators,
         base_efficiency |-> WorkplaceData.power_station[i].base_efficiency]]

\* get_workplace_type, by substring of the workplace id
get_workplace_type(workplace) ==
    IF IsSubstring(<<"trading">>, workplace.id) THEN "trading_station"
    ELSE IF IsSubstring(<<"manufacturing">>, workplace.id) THEN "manufacturing_station"
    ELSE IF IsSubstring(<<"meeting">>, workplace.id) THEN "meeting_room"
    ELSE IF IsSubstring(<<"power">>, workplace.id) THEN "power_station"
    ELSE "other"

\* product_requirements of the configuration, as ordered (product, count) pairs
ProductRequirements ==
    [trading_stations |-> << [product |-> "LMD", count |-> 1],
                             [product |-> "Orundum", count |-> 0] >>,
     manufacturing_stations |-> << [product |-> "Pure Gold", count |-> 1] >>]

\* the mapping used when the configuration has no product_requirements
DefaultProductRequirements ==
    [trading_stations |-> << [product |-> "LMD", count |-> 3],
                             [product |-> "Orundum", count |-> 0] >>,
     manufacturing_stations |-> << [product |-> "Pure Gold", count |-> 3],
                                   [product |-> "Originium Shard", count |-> 0],
                                   [product |-> "Battle Record", count |-> 0] >>]

\* config_data.get('product_requirements', default) of a call without argument
RequestedProducts(config) ==
    IF "product_requirements" \in DOMAIN config THEN config.product_requirements
    ELSE DefaultProductRequirements

\* an expansion that lists every product of the mapping once, whatever its count
RECURSIVE ExpandProducts_once(_)
ExpandProducts_once(pairs) ==
    IF Len(pairs) = 0 THEN <<>>
    ELSE <<pairs[1].product>> \o ExpandProducts_once(Tail(pairs))

\* products.extend([product] * count) for every pair of the mapping
RECURSIVE ExpandProducts(_)
ExpandProducts(pairs) ==
    IF Len(pairs) = 0 THEN <<>>
    ELSE [i \in 1..pairs[1].count |-> pairs[1].product] \o ExpandProducts(Tail(pairs))

\* workplace.current_product for every workplace after lines 815-827
AssignProducts ==
    [w \in 1..Len(Workplaces) |->
        LET cat == Workplaces[w].category
            first == CHOOSE k \in 1..Len(Workplaces) :
                        /\ Workplaces[k].category = cat
                        /\ \A j \in 1..(k - 1) : Workplaces[j].category # cat
            i == w - first + 1
        IN IF cat \in {"trading_stations", "manufacturing_stations"}
           THEN LET products == ExpandProducts(RequestedProducts(config_data)[cat])
                IN IF i <= Len(products) THEN products[i] ELSE ""
           ELSE ""]

-----------------------------------------------------------------------------
(* Eligibility checks *)

\* every operator of the catalog, owned or not
OpByName_unfiltered == DOMAIN operators

\* get_available_operators, as the key set of op_by_name
OpByName == {n \in DOMAIN operators : operators[n].own}

\* the tier overrides are not looked at
check_elite_requirements_ignored(names, elite_requirements) == TRUE

\* check_elite_requirements(operators, elite_requirements), operators given by name
check_elite_requirements(names, elite_requirements) ==
    \A op_name \in DOMAIN elite_requirements :
        op_name \in names => operators[op_name].elite >= elite_requirements[op_name]

\* the body shared by the three check_*_requirements methods
RequirementsMet(reqs) ==
    \A i \in 1..Len(reqs) :
        /\ reqs[i].operator \in DOMAIN operators
        /\ operators[reqs[i].operator].own
        /\ operators[reqs[i].operator].elite >= reqs[i].elite_required

check_control_center_requirements(control_center_reqs) == RequirementsMet(control_center_reqs)

check_dormitory_requirements(dormitory_reqs) == RequirementsMet(dormitory_reqs)

check_power_station_requirements(dormitory_reqs) == RequirementsMet(dormitory_reqs)

\* check_fiammetta_available
check_fiammetta_available ==
    /\ "Fiammetta" \in DOMAIN operators
    /\ operators["Fiammetta"].own
    /\ operators["Fiammetta"].elite >= 2

-----------------------------------------------------------------------------
(* Quota-boost selector: select_fiammetta_targets *)

\* candidates = ['巫恋', '龙舌兰', '但书']
FiammettaCandidates == <<"Shamare", "Tequila", "Proviso">>

\* len(selected) >= 3
FiammettaQuota == 3

\* x in list
InList(x, list) == \E i \in 1..Len(list) : list[i] = x

\* owned and at elite 2 or more
BoostEligible(op) ==
    op \in DOMAIN operators /\ operators[op].own /\ operators[op].elite >= 2

\* the first loop: the candidates that are eligible, in list order
SelectPreferred == SelectSeq(FiammettaCandidates, BoostEligible)

\* op_scores after the loop over one rule's operators: [keys, score], keys in
\* insertion order, score[op] the exact fraction num/den
RECURSIVE ScoreOperators(_, _, _, _)
ScoreOperators(scores, rule, i, selected) ==
    IF i > Len(rule.operators) THEN scores
    ELSE LET op == rule.operators[i]
             n == rule.synergy_efficiency
             d == Len(rule.operators)
             old == IF InList(op, scores.keys) THEN scores.score[op]
                    ELSE [num |-> 0, den |-> 1]
             new == [num |-> old.num * d + n * old.den, den |-> old.den * d]
         IN IF BoostEligible(op) /\ ~InList(op, selected)
            THEN ScoreOperators(
                    [keys |-> IF InList(op, scores.keys) THEN scores.keys
                              ELSE Append(scores.keys, op),
                     score |-> DictPut(scores.score, op, new)],
                    rule, i + 1, selected)
            ELSE ScoreOperators(scores, rule, i + 1, selected)

\* op_scores after the loop over trading_rules
RECURSIVE ScoreRules(_, _, _)
ScoreRules(scores, rules, selected) ==
    IF Len(rules) = 0 THEN scores
    ELSE ScoreRules(ScoreOperators(scores, rules[1], 1, selected), Tail(rules), selected)

\* one insertion of sorted(op_scores, key=op_scores.get, reverse=True)
RECURSIVE ScoreInsert(_, _, _)
ScoreInsert(sorted, op, score) ==
    IF Len(sorted) = 0 THEN <<op>>
    ELSE IF score[op].num * score[sorted[1]].den > score[sorted[1]].num * score[op].den
         THEN <<op>> \o sorted
    ELSE <<sorted[1]>> \o ScoreInsert(Tail(sorted), op, score)

\* the scored operators in the order their scores were first recorded
SortByScore_unsorted(keys, score) == keys

\* sorted(op_scores, key=op_scores.get, reverse=True): stable, descending
RECURSIVE SortByScore(_, _)
SortByScore(keys, score) ==
    IF Len(keys) = 0 THEN <<>>
    ELSE ScoreInsert(SortByScore(SubSeq(keys, 1, Len(keys) - 1), score), keys[Len(keys)], score)

\* select_fiammetta_targets
select_fiammetta_targets ==
    LET selected == SelectPreferred
        trading_rules == SelectSeq(efficiency_rules,
                                   LAMBDA r : r.workplace_type = "trading_station")
        op_scores == ScoreRules([keys |-> <<>>, score |-> EmptyDict], trading_rules, selected)
        sorted_ops == SortByScore(op_scores.keys, op_scores.score)
        room == FiammettaQuota - Len(selected)
    IN IF Len(selected) >= FiammettaQuota THEN selected
       ELSE selected \o SubSeq(sorted_ops, 1, IF Len(sorted_ops) < room THEN Len(sorted_ops) ELSE room)

-----------------------------------------------------------------------------
(* Greedy slot allocator: candidate evaluation *)

\* the group name of the rules handled by the generic pass
GenericSystem == <<"tong", "yong">>

\* the keys of efficiency_data['combination_rules'].get(workplace_type, {}), in dict order
RECURSIVE SystemKeys(_, _, _)
SystemKeys(decls, workplace_type, keys) ==
    IF Len(decls) = 0 THEN keys
    ELSE SystemKeys(Tail(decls), workplace_type,
                    IF decls[1].workplace_type = workplace_type
                       /\ ~InList(decls[1].system_name, keys)
                    THEN Append(keys, decls[1].system_name) ELSE keys)

\* the system a rule is grouped under: the first key that occurs in its description
SystemOf(rule, workplace_type) ==
    LET keys == SystemKeys(efficiency_data, workplace_type, <<>>)
        hits == {k \in 1..Len(keys) : IsSubstring(keys[k], rule.description)}
    IN IF hits = {} THEN GenericSystem
       ELSE keys[CHOOSE k \in hits : \A j \in hits : k <= j]

\* a filter that lets every rule pass whatever its product tags
rule_matches_products_any(rule, product) == TRUE

\* rule_matches_products
rule_matches_products(rule, product) ==
    Len(rule.products) = 0 \/ InList(product, rule.products)

\* all_rules of one workplace
AllRules(w) ==
    SelectSeq(efficiency_rules,
              LAMBDA r : /\ r.workplace_type = get_workplace_type(Workplaces[w])
                         /\ rule_matches_products(r, current_product[w]))

\* the keys of system_groups, in insertion order
RECURSIVE GroupNames(_, _, _)
GroupNames(rules, workplace_type, names) ==
    IF Len(rules) = 0 THEN names
    ELSE LET g == SystemOf(rules[1], workplace_type)
         IN GroupNames(Tail(rules), workplace_type,
                       IF InList(g, names) THEN names ELSE Append(names, g))

\* system_groups[name], sorted as at line 483
GroupRules(rules, workplace_type, name) ==
    SortRules(SelectSeq(rules, LAMBDA r : SystemOf(r, workplace_type) = name))

\* the rules of the named systems, in the order the loop of line 490 visits them
RECURSIVE SystemRuleOrder(_, _, _)
SystemRuleOrder(names, rules, workplace_type) ==
    IF Len(names) = 0 THEN <<>>
    ELSE (IF names[1] = GenericSystem THEN <<>>
          ELSE GroupRules(rules, workplace_type, names[1]))
         \o SystemRuleOrder(Tail(names), rules, workplace_type)

\* the raised cap of the quota-boost list granted in every workplace
MaxUsage_any_workplace(op_name, workplace_type) ==
    IF InList(op_name, fiammetta_targets) THEN 3 ELSE 2

\* max_usage of lines 505, 568, 596, 711 and 741
MaxUsage(op_name, workplace_type) ==
    IF InList(op_name, fiammetta_targets) /\ workplace_type = "trading_station" THEN 3 ELSE 2

\* the availability test of one operator name (lines 506-509)
Unavailable(op_name, workplace_type, used_names) ==
    \/ op_name \notin OpByName
    \/ op_name \in used_names
    \/ op_name \in shift_used_names
    \/ DictGet(operator_usage, op_name, 0) >= MaxUsage(op_name, workplace_type)

\* a whole-group candidate
GroupCandidate(type, rule) ==
    [type |-> type, rule |-> rule, required |-> rule.operators,
     efficiency |-> rule.synergy_efficiency, slots_used |-> Len(rule.operators),
     num |-> rule.synergy_efficiency, den |-> Len(rule.operators)]

\* a single-operator candidate that takes no slot
EachCandidate_no_slot(type, rule, op_name) ==
    [type |-> type, rule |-> rule, required |-> <<op_name>>,
     efficiency |-> rule.synergy_efficiency, slots_used |-> 0,
     num |-> rule.synergy_efficiency, den |-> 1]

\* a single-operator candidate of an apply_each rule
EachCandidate(type, rule, op_name) ==
    [type |-> type, rule |-> rule, required |-> <<op_name>>,
     efficiency |-> rule.synergy_efficiency, slots_used |-> 1,
     num |-> rule.synergy_efficiency, den |-> 1]

\* the rule of a named system qualifies without the comparison of its size
\* with the remaining slots
SystemQualifies_any_size(rule, workplace_type, used_names, remaining_slots) ==
    /\ remaining_slots > 0
    /\ \A i \in 1..Len(rule.operators) :
          ~Unavailable(rule.operators[i], workplace_type, used_names)
    /\ check_elite_requirements(Range(rule.operators), rule.elite_requirements)
    /\ check_control_center_requirements(rule.requires_control_center)
    /\ check_dormitory_requirements(rule.requires_dormitory)
    /\ check_power_station_requirements(rule.requires_power_station)

\* lines 494-545: a rule of a named system reaches the scoring step
SystemQualifies(rule, workplace_type, used_names, remaining_slots) ==
    /\ remaining_slots > 0
    /\ \A i \in 1..Len(rule.operators) :
          ~Unavailable(rule.operators[i], workplace_type, used_names)
    /\ Len(rule.operators) <= remaining_slots
    /\ check_elite_requirements(Range(rule.operators), rule.elite_requirements)
    /\ check_control_center_requirements(rule.requires_control_center)
    /\ check_dormitory_requirements(rule.requires_dormitory)
    /\ check_power_station_requirements(rule.requires_power_station)

\* lines 594-608 and 736-752: a whole-group rule reaches the scoring step
GroupQualifies(rule, workplace_type, used_names, remaining_slots) ==
    /\ remaining_slots > 0
    /\ \A i \in 1..Len(rule.operators) :
          ~Unavailable(rule.operators[i], workplace_type, used_names)
    /\ Len(rule.operators) <= remaining_slots
    /\ check_elite_requirements(Range(rule.operators), rule.elite_requirements)
    /\ check_control_center_requirements(rule.requires_control_center)

\* lines 567-580 and 710-722: one operator of an apply_each rule reaches the scoring step
EachQualifies(rule, op_name, workplace_type, used_names, remaining_slots) ==
    /\ remaining_slots > 0
    /\ ~Unavailable(op_name, workplace_type, used_names)
    /\ check_elite_requirements({op_name},
            DictPut(EmptyDict, op_name, DictGet(rule.elite_requirements, op_name, 0)))
    /\ check_control_center_requirements(rule.requires_control_center)

\* the scored candidates of one apply_each rule, in the order of rule.operators
EachCandidates(type, rule, workplace_type, used_names, remaining_slots) ==
    LET ok == SelectSeq(rule.operators,
                  LAMBDA n : EachQualifies(rule, n, workplace_type, used_names, remaining_slots))
    IN [i \in 1..Len(ok) |-> EachCandidate(type, rule, ok[i])]

\* the scored candidates of the named-system pass (lines 490-557)
RECURSIVE SystemCandidates(_, _, _, _)
SystemCandidates(rules, workplace_type, used_names, remaining_slots) ==
    IF Len(rules) = 0 THEN <<>>
    ELSE (IF SystemQualifies(rules[1], workplace_type, used_names, remaining_slots)
          THEN <<GroupCandidate("system", rules[1])>> ELSE <<>>)
         \o SystemCandidates(Tail(rules), workplace_type, used_names, remaining_slots)

\* the scored candidates of a pass that expands apply_each rules
\* (lines 560-619 with types generic_each/generic, lines 707-763 with each/normal)
RECURSIVE ExpandedCandidates(_, _, _, _, _, _)
ExpandedCandidates(rules, eachType, groupType, workplace_type, used_names, remaining_slots) ==
    IF Len(rules) = 0 THEN <<>>
    ELSE (IF rules[1].apply_each
          THEN EachCandidates(eachType, rules[1], workplace_type, used_names, remaining_slots)
          ELSE IF GroupQualifies(rules[1], workplace_type, used_names, remaining_slots)
          THEN <<GroupCandidate(groupType, rules[1])>> ELSE <<>>)
         \o ExpandedCandidates(Tail(rules), eachType, groupType, workplace_type,
                               used_names, remaining_slots)

\* efficiency_per_slot > best_efficiency, best_efficiency starting at -1
Improves(c, best) ==
    IF Len(best) = 0 THEN c.num > (-1) * c.den
    ELSE c.num * best[1].den > best[1].num * c.den

\* the running best_candidate over the scored candidates, in evaluation order
RECURSIVE PickBest(_, _)
PickBest(cands, best) ==
    IF Len(cands) = 0 THEN best
    ELSE PickBest(Tail(cands), IF Improves(cands[1], best) THEN <<cands[1]>> ELSE best)

\* best_candidate of the first selection of optimize_workplace (lines 485-619)
FirstSelection(w, used_names, remaining_slots) ==
    LET workplace_type == get_workplace_type(Workplaces[w])
        all_rules == AllRules(w)
        names == GroupNames(all_rules, workplace_type, <<>>)
        generic_rules == IF InList(GenericSystem, names)
                         THEN GroupRules(all_rules, workplace_type, GenericSystem)
                         ELSE <<>>
    IN PickBest(
          SystemCandidates(SystemRuleOrder(names, all_rules, workplace_type),
                           workplace_type, used_names, remaining_slots)
          \o ExpandedCandidates(generic_rules, "generic_each", "generic",
                                workplace_type, used_names, remaining_slots),
          <<>>)

\* best_candidate of one iteration of optimize_workplace_recursive (lines 699-763)
RecursiveSelection(w, used_names, remaining_slots) ==
    PickBest(ExpandedCandidates(AllRules(w), "each", "normal",
                                get_workplace_type(Workplaces[w]), used_names, remaining_slots),
             <<>>)

\* a best candidate is applied unless its per-slot efficiency is negative
Applies_nonnegative(best) == Len(best) = 1 /\ best[1].num >= 0

\* `best_candidate and best_efficiency > 0`
Applies(best) == Len(best) = 1 /\ best[1].num > 0

-----------------------------------------------------------------------------
(* Greedy slot allocator: state of one optimize_workplace call *)

\* the locals of optimize_workplace at line 460; applications is the history
\* of the candidates applied so far, kept for the properties below
NewAllocation(w) ==
    [remaining_slots |-> Workplaces[w].max_operators,
     assigned_ops |-> <<>>,
     used_names |-> {},
     total_synergy |-> 0,
     applied_combinations |-> <<>>,
     applied_control_center_reqs |-> <<>>,
     applied_dormitory_reqs |-> <<>>,
     applied_power_station_reqs |-> <<>>,
     applications |-> <<>>]

\* no optimize_workplace call is running
NoAllocation == [remaining_slots |-> 0, assigned_ops |-> <<>>, used_names |-> {},
                 total_synergy |-> 0, applied_combinations |-> <<>>,
                 applied_control_center_reqs |-> <<>>, applied_dormitory_reqs |-> <<>>,
                 applied_power_station_reqs |-> <<>>, applications |-> <<>>]

\* the entry appended to applied_combinations (lines 635-638 and 779-782)
AppliedDescription(c) ==
    IF c.type \in {"generic_each", "each"}
    THEN c.rule.description \o <<"(">> \o JoinNames(c.required) \o <<")">>
    ELSE c.rule.description

\* an application whose synergy replaces the synergy accumulated so far
ApplyCandidate_synergy_of_last(a, c, phase) ==
    [remaining_slots |-> a.remaining_slots - c.slots_used,
     assigned_ops |-> a.assigned_ops \o c.required,
     used_names |-> a.used_names \cup Range(c.required),
     total_synergy |-> c.efficiency,
     applied_combinations |-> Append(a.applied_combinations, AppliedDescription(c)),
     applied_control_center_reqs |->
         a.applied_control_center_reqs \o c.rule.requires_control_center,
     applied_dormitory_reqs |-> a.applied_dormitory_reqs \o c.rule.requires_dormitory,
     applied_power_station_reqs |->
         a.applied_power_station_reqs \o c.rule.requires_power_station,
     applications |-> Append(a.applications,
         [type |-> c.type, rule |-> c.rule, required |-> c.required,
          efficiency |-> c.efficiency, slots_used |-> c.slots_used, phase |-> phase,
          slots_before |-> a.remaining_slots,
          usage_before |-> [i \in 1..Len(c.required) |->
                               DictGet(operator_usage, c.required[i], 0)]])]

\* lines 626-642 and 770-786 on the locals of the call
ApplyCandidate(a, c, phase) ==
    [remaining_slots |-> a.remaining_slots - c.slots_used,
     assigned_ops |-> a.assigned_ops \o c.required,
     used_names |-> a.used_names \cup Range(c.required),
     total_synergy |-> a.total_synergy + c.efficiency,
     applied_combinations |-> Append(a.applied_combinations, AppliedDescription(c)),
     applied_control_center_reqs |->
         a.applied_control_center_reqs \o c.rule.requires_control_center,
     applied_dormitory_reqs |-> a.applied_dormitory_reqs \o c.rule.requires_dormitory,
     applied_power_station_reqs |->
         a.applied_power_station_reqs \o c.rule.requires_power_station,
     applications |-> Append(a.applications,
         [type |-> c.type, rule |-> c.rule, required |-> c.required,
          efficiency |-> c.efficiency, slots_used |-> c.slots_used, phase |-> phase,
          slots_before |-> a.remaining_slots,
          usage_before |-> [i \in 1..Len(c.required) |->
                               DictGet(operator_usage, c.required[i], 0)]])]

\* operator_usage[op_name] += 1 for every op_name of required, in order
RECURSIVE IncrementUsage(_, _)
IncrementUsage(usage, required) ==
    IF Len(required) = 0 THEN usage
    ELSE IncrementUsage([usage EXCEPT ![required[1]] = @ + 1], Tail(required))

\* the AssignmentResult with the synergy alone as its total efficiency
MakeResult_no_base(w, a) ==
    [workplace |-> w,
     optimal_operators |-> a.assigned_ops,
     total_efficiency |-> a.total_synergy,
     operator_efficiency |-> a.total_synergy,
     applied_combinations |-> a.applied_combinations,
     control_center_requirements |-> a.applied_control_center_reqs,
     dormitory_requirements |-> a.applied_dormitory_reqs,
     power_station_requirements |-> a.applied_power_station_reqs]

\* the AssignmentResult of lines 667-676
MakeResult(w, a) ==
    [workplace |-> w,
     optimal_operators |-> a.assigned_ops,
     total_efficiency |-> Workplaces[w].base_efficiency + a.total_synergy,
     operator_efficiency |-> a.total_synergy,
     applied_combinations |-> a.applied_combinations,
     control_center_requirements |-> a.applied_control_center_reqs,
     dormitory_requirements |-> a.applied_dormitory_reqs,
     power_station_requirements |-> a.applied_power_station_reqs]

\* no AssignmentResult is pending
NoResult == [workplace |-> 0, optimal_operators |-> <<>>, total_efficiency |-> 0,
             operator_efficiency |-> 0, applied_combinations |-> <<>>,
             control_center_requirements |-> <<>>, dormitory_requirements |-> <<>>,
             power_station_requirements |-> <<>>]

-----------------------------------------------------------------------------
(* Cycle scheduler: helpers of get_optimal_assignments *)

\* range(3)
ShiftCount == 3

\* a fold that admits a named operator whatever the exclusivity set holds
RECURSIVE FoldRequirements_no_exclusivity(_, _)
FoldRequirements_no_exclusivity(reqs, st) ==
    IF Len(reqs) = 0 \/ st.error THEN st
    ELSE LET op == reqs[1].operator
         IN IF DictGet(st.usage, op, 0) < 2
            THEN FoldRequirements_no_exclusivity(Tail(reqs),
                    [members |-> st.members \cup {op},
                     used |-> st.used \cup {op},
                     usage |-> IF op \in DOMAIN st.usage
                               THEN [st.usage EXCEPT ![op] = @ + 1] ELSE st.usage,
                     error |-> op \notin DOMAIN st.usage])
            ELSE FoldRequirements_no_exclusivity(Tail(reqs), st)

\* the loops of lines 875-885 and 897-907 over one requirement list; st is
\* [members, used, usage, error]; error is the KeyError of operator_usage[...] += 1
RECURSIVE FoldRequirements(_, _)
FoldRequirements(reqs, st) ==
    IF Len(reqs) = 0 \/ st.error THEN st
    ELSE LET op == reqs[1].operator
         IN IF op \notin st.used /\ DictGet(st.usage, op, 0) < 2
            THEN FoldRequirements(Tail(reqs),
                    [members |-> st.members \cup {op},
                     used |-> st.used \cup {op},
                     usage |-> IF op \in DOMAIN st.usage
                               THEN [st.usage EXCEPT ![op] = @ + 1] ELSE st.usage,
                     error |-> op \notin DOMAIN st.usage])
            ELSE FoldRequirements(Tail(reqs), st)

\* a room that asks for auto-fill whenever it is not filled to capacity
ProductRoom_autofill_underfilled(r, w) ==
    [operators |-> r.optimal_operators,
     autofill |-> Len(r.optimal_operators) < Workplaces[w].max_operators,
     product |-> current_product[w]]

\* the room appended for a trading or manufacturing workplace
ProductRoom(r, w) ==
    [operators |-> r.optimal_operators,
     autofill |-> Len(r.optimal_operators) = 0,
     product |-> current_product[w]]

\* the room of the meeting room or of a power station
PlainRoom(r) ==
    [operators |-> r.optimal_operators, autofill |-> Len(r.optimal_operators) = 0]

\* a plan that carries the flag of the configuration as it was read
NewPlan_configured_flag(target) ==
    [Fiammetta |-> [enable |-> config_data.Fiammetta_enable, target |-> target],
     trading |-> <<>>, manufacture |-> <<>>, control |-> <<>>, power |-> <<>>,
     meeting |-> <<>>, dormitory |-> <<>>]

\* the plan of lines 842-857
NewPlan(target) ==
    [Fiammetta |-> [enable |-> fiammetta_enable, target |-> target],
     trading |-> <<>>, manufacture |-> <<>>, control |-> <<>>, power |-> <<>>,
     meeting |-> <<>>, dormitory |-> <<>>]

\* no shift is running
NoPlan == [Fiammetta |-> [enable |-> FALSE, target |-> ""],
           trading |-> <<>>, manufacture |-> <<>>, control |-> <<>>, power |-> <<>>,
           meeting |-> <<>>, dormitory |-> <<>>]

\* list(a_set) under the iteration order of this process
ListOfSet(members, order) == SelectSeq(order, LAMBDA n : n \in members)

\* every name that can enter a set of the cycle, in some fixed order
AllNames == <<"A", "B", "C", "Fiammetta", "Proviso", "Shamare", "Tequila">>

\* reversed(list)
Reverse(s) == [i \in 1..Len(s) |-> s[Len(s) + 1 - i]]

\* two of the iteration orders a process can give its sets of str: the order
\* depends on the hash seed the interpreter draws when it starts
HashOrders == {AllNames, Reverse(AllNames)}

\* the iteration order is not observed yet
NoOrder == <<>>

\* the index of the first workplace that is neither a trading nor a manufacturing station
FirstPlainWorkplace == trading_stations_count + manufacturing_stations_count + 1

-----------------------------------------------------------------------------
(* Inputs: the operator catalogs and the rule declarations the runs start from *)

\* the token 'name'
Tok(name) == [name |-> name, tier |-> NoTier]

\* the token 'name/tier'
TokTier(name, tier) == [name |-> name, tier |-> tier]

\* a rule of a plain rule list, with the optional keys absent
ListRule(workplace_type, system_name, combo, efficiency) ==
    [workplace_type |-> workplace_type, system_name |-> system_name, form |-> "list",
     base_combo |-> <<>>, base_product |-> <<>>, combo |-> combo,
     efficiency |-> efficiency, apply_each |-> FALSE, priority |-> 0,
     has_product |-> FALSE, product |-> <<>>,
     control_center |-> <<>>, dormitory |-> <<>>, power_station |-> <<>>]

\* a rule of a structured system entry, with the optional keys absent
SystemRule(workplace_type, system_name, base_combo, base_product, combo, efficiency) ==
    [workplace_type |-> workplace_type, system_name |-> system_name, form |-> "dict",
     base_combo |-> base_combo, base_product |-> base_product, combo |-> combo,
     efficiency |-> efficiency, apply_each |-> FALSE, priority |-> 0,
     has_product |-> FALSE, product |-> <<>>,
     control_center |-> <<>>, dormitory |-> <<>>, power_station |-> <<>>]

SysShamare == <<"wu", "lian", "zu">>

SysCombo == <<"tong", "yong", "zu", "he">>

SysSingle == <<"tong", "yong", "dan", "ren">>

\* the rule declarations a run draws its rule specification from, in the
\* order category -> system -> rule of the specification file
RulePool == <<
    \* 1: trading, system entry with base_combo ['Shamare/2'] and product 'LMD'
    [SystemRule("trading_station", SysShamare, <<TokTier("Shamare", 2)>>, <<"LMD">>, <<>>, 20)
        EXCEPT !.control_center = <<TokTier("Fiammetta", 2)>>],
    \* 2: trading, the same system entry, sub-rule combo ['Shamare']: the core
    \*    group names Shamare twice
    SystemRule("trading_station", SysShamare, <<TokTier("Shamare", 2)>>, <<"LMD">>,
               <<Tok("Shamare")>>, 30),
    \* 3: trading, combination [A/2, B] of 50
    [ListRule("trading_station", SysCombo, <<TokTier("A", 2), Tok("B")>>, 50)
        EXCEPT !.control_center = <<TokTier("Fiammetta", 2), Tok("C")>>],
    \* 4: trading, apply_each over [A, B] of 10, declared under the single-operator key
    [ListRule("trading_station", SysSingle, <<Tok("A"), Tok("B")>>, 10)
        EXCEPT !.apply_each = TRUE],
    \* 5: trading, apply_each over [B, C] declared under the generic key, with an
    \*    unmet power-station requirement
    [ListRule("trading_station", GenericSystem, <<Tok("B"), Tok("C")>>, 20)
        EXCEPT !.apply_each = TRUE, !.power_station = <<Tok("Tequila")>>],
    \* 6: manufacturing, [Shamare] with control-center requirement A/2
    [ListRule("manufacturing_station", GenericSystem, <<Tok("Shamare")>>, 30)
        EXCEPT !.control_center = <<TokTier("A", 2)>>],
    \* 7: manufacturing, apply_each over [A/2, C] with dormitory requirements A/2 and B
    [ListRule("manufacturing_station", GenericSystem, <<TokTier("A", 2), Tok("C")>>, 15)
        EXCEPT !.apply_each = TRUE, !.dormitory = <<TokTier("A", 2), Tok("B")>>],
    \* 8: manufacturing, [B] with a dormitory requirement outside the catalog
    [ListRule("manufacturing_station", SysCombo, <<Tok("B")>>, 5)
        EXCEPT !.dormitory = <<Tok("Tequila")>>, !.priority = 1],
    \* 9: meeting room, [C]
    ListRule("meeting_room", GenericSystem, <<Tok("C")>>, 10),
    \* 10: power station, apply_each over [A, B]
    [ListRule("power_station", SysSingle, <<Tok("A"), Tok("B")>>, 5)
        EXCEPT !.apply_each = TRUE]
>>

\* the largest number of rules a rule specification declares
MaxRules == 3

\* the rule specifications: the sub-lists of RulePool of at most MaxRules rules
RuleSelections == {sel \in SUBSET (1..Len(RulePool)) : Cardinality(sel) <= MaxRules}

\* the declarations of a selection, in declaration order
Declarations(sel) == SelectSeq(RulePool, LAMBDA d : \E i \in sel : RulePool[i] = d)

\* load_operators over the catalogs of the runs
Catalogs ==
    {[n \in {"A", "B", "C", "Fiammetta", "Shamare"} |->
        CASE n = "A" -> [elite |-> aElite, own |-> TRUE]
          [] n = "B" -> [elite |-> 0, own |-> bOwn]
          [] n = "C" -> [elite |-> 0, own |-> TRUE]
          [] n = "Fiammetta" -> [elite |-> 2, own |-> TRUE]
          [] n = "Shamare" -> [elite |-> 2, own |-> sOwn]] :
     aElite \in {0, 2}, bOwn \in BOOLEAN, sOwn \in BOOLEAN}

-----------------------------------------------------------------------------
(* The run: WorkplaceOptimizer.__init__ followed by get_optimal_assignments *)

\* __init__ (lines 83-94) on one catalog, rule specification and configuration
Init ==
    /\ operators \in Catalogs
    /\ \E sel \in RuleSelections :
          /\ efficiency_data = Declarations(sel)
          /\ efficiency_rules = LoadEfficiencyRules(Declarations(sel))
    /\ config_data \in {[Fiammetta_enable |-> e, product_requirements |-> ProductRequirements] :
                         e \in BOOLEAN}
    /\ fiammetta_enable = FALSE
    /\ fiammetta_targets = <<>>
    /\ current_product = [w \in 1..Len(Workplaces) |-> ""]
    /\ operator_usage = EmptyDict
    /\ shift_used_names = {}
    /\ control_operators = {}
    /\ dormitory_operators = {}
    /\ shift = 0
    /\ wp = 0
    /\ pc = "start"
    /\ alloc = NoAllocation
    /\ result = NoResult
    /\ plan = NoPlan
    /\ plans = <<>>
    /\ str_hash_order = NoOrder
    /\ run = 1
    /\ first_plans = <<>>
    /\ rerun_kind = "none"
    /\ non_trading_names = {}

\* lines 808-836: boost list, product tags, fresh usage budget
Start ==
    /\ pc = "start"
    /\ LET available == IF config_data.Fiammetta_enable THEN check_fiammetta_available
                        ELSE FALSE
           targets == IF available THEN select_fiammetta_targets ELSE <<>>
       IN /\ fiammetta_targets' = targets
          /\ fiammetta_enable' = (config_data.Fiammetta_enable /\ Len(targets) > 0)
    /\ current_product' = AssignProducts
    /\ operator_usage' = [n \in OpByName |-> 0]
    /\ plans' = <<>>
    /\ shift' = 0
    /\ non_trading_names' = {}
    /\ pc' = IF ShiftCount > 0 THEN "shift" ELSE "done"
    /\ UNCHANGED << operators, efficiency_data, efficiency_rules, config_data,
                    shift_used_names, control_operators, dormitory_operators, wp,
                    alloc, result, plan, str_hash_order, run, first_plans, rerun_kind >>

\* the start of a shift whose plan always names the first boost target
BeginShift_first_target ==
    /\ pc = "shift"
    /\ plan' = NewPlan(IF Len(fiammetta_targets) > 0 THEN fiammetta_targets[1] ELSE "")
    /\ shift_used_names' = {}
    /\ control_operators' = {}
    /\ dormitory_operators' = {}
    /\ wp' = 1
    /\ pc' = IF FirstPlainWorkplace = 1 THEN "support" ELSE "optimize"
    /\ UNCHANGED << operators, efficiency_data, efficiency_rules, config_data,
                    fiammetta_enable, fiammetta_targets, current_product,
                    operator_usage, shift, alloc, result, plans, str_hash_order,
                    run, first_plans, rerun_kind, non_trading_names >>

\* lines 839-863: the plan and the per-shift sets of one shift
BeginShift ==
    /\ pc = "shift"
    /\ plan' = NewPlan(IF Len(fiammetta_targets) > 0
                       THEN fiammetta_targets[(shift % Len(fiammetta_targets)) + 1]
                       ELSE "")
    /\ shift_used_names' = {}
    /\ control_operators' = {}
    /\ dormitory_operators' = {}
    /\ wp' = 1
    /\ pc' = IF FirstPlainWorkplace = 1 THEN "support" ELSE "optimize"
    /\ UNCHANGED << operators, efficiency_data, efficiency_rules, config_data,
                    fiammetta_enable, fiammetta_targets, current_product,
                    operator_usage, shift, alloc, result, plans, str_hash_order,
                    run, first_plans, rerun_kind, non_trading_names >>

\* the names a candidate applied to workplace w adds to the history
NonTradingPlaced(w, required) ==
    IF get_workplace_type(Workplaces[w]) = "trading_station" THEN {} ELSE Range(required)

\* optimize_workplace up to line 648: the first selection and its application
OptimizeWorkplace ==
    /\ pc = "optimize"
    /\ LET a0 == NewAllocation(wp)
           best == FirstSelection(wp, a0.used_names, a0.remaining_slots)
           a1 == IF Applies(best) THEN ApplyCandidate(a0, best[1], "first") ELSE a0
       IN /\ alloc' = a1
          /\ operator_usage' = IF Applies(best)
                               THEN IncrementUsage(operator_usage, best[1].required)
                               ELSE operator_usage
          /\ shift_used_names' = IF Applies(best)
                                 THEN shift_used_names \cup Range(best[1].required)
                                 ELSE shift_used_names
          /\ non_trading_names' = IF Applies(best)
                                  THEN non_trading_names \cup NonTradingPlaced(wp, best[1].required)
                                  ELSE non_trading_names
          /\ IF a1.remaining_slots > 0
             THEN pc' = "recursive" /\ result' = NoResult
             ELSE pc' = "returned" /\ result' = MakeResult(wp, a1)
    /\ UNCHANGED << operators, efficiency_data, efficiency_rules, config_data,
                    fiammetta_enable, fiammetta_targets, current_product,
                    control_operators, dormitory_operators, shift, wp, plan, plans,
                    str_hash_order, run, first_plans, rerun_kind >>

\* one iteration of the loop of optimize_workplace_recursive that applies a candidate
RecursiveIteration ==
    /\ pc = "recursive"
    /\ alloc.remaining_slots > 0
    /\ LET best == RecursiveSelection(wp, alloc.used_names, alloc.remaining_slots)
           a1 == ApplyCandidate(alloc, best[1], "recursive")
       IN /\ Applies(best)
          /\ alloc' = a1
          /\ operator_usage' = IncrementUsage(operator_usage, best[1].required)
          /\ shift_used_names' = shift_used_names \cup Range(best[1].required)
          /\ non_trading_names' = non_trading_names \cup NonTradingPlaced(wp, best[1].required)
          /\ IF a1.remaining_slots > 0
             THEN pc' = "recursive" /\ result' = NoResult
             ELSE pc' = "returned" /\ result' = MakeResult(wp, a1)
    /\ UNCHANGED << operators, efficiency_data, efficiency_rules, config_data,
                    fiammetta_enable, fiammetta_targets, current_product,
                    control_operators, dormitory_operators, shift, wp, plan, plans,
                    str_hash_order, run, first_plans, rerun_kind >>

\* the iteration that finds no candidate to apply: break, and the call returns
RecursiveBreak ==
    /\ pc = "recursive"
    /\ alloc.remaining_slots > 0
    /\ ~Applies(RecursiveSelection(wp, alloc.used_names, alloc.remaining_slots))
    /\ pc' = "returned"
    /\ result' = MakeResult(wp, alloc)
    /\ UNCHANGED << operators, efficiency_data, efficiency_rules, config_data,
                    fiammetta_enable, fiammetta_targets, current_product,
                    operator_usage, shift_used_names, control_operators,
                    dormitory_operators, shift, wp, alloc, plan, plans,
                    str_hash_order, run, first_plans, rerun_kind, non_trading_names >>

\* lines 868-885 and 890-907: the room of a trading or manufacturing station,
\* then its control-center and dormitory requirements folded into the support sets
CollectProductRoom ==
    /\ pc = "returned"
    /\ Workplaces[wp].category \in {"trading_stations", "manufacturing_stations"}
    /\ LET cc == FoldRequirements(result.control_center_requirements,
                    [members |-> control_operators, used |-> shift_used_names,
                     usage |-> operator_usage, error |-> FALSE])
           dorm == FoldRequirements(result.dormitory_requirements,
                    [members |-> dormitory_operators, used |-> cc.used,
                     usage |-> cc.usage, error |-> cc.error])
       IN /\ control_operators' = cc.members
          /\ dormitory_operators' = dorm.members
          /\ shift_used_names' = dorm.used
          /\ operator_usage' = dorm.usage
          /\ non_trading_names' = non_trading_names
                \cup (cc.members \ control_operators)
                \cup (dorm.members \ dormitory_operators)
          /\ pc' = IF dorm.error THEN "error"
                   ELSE IF wp + 1 = FirstPlainWorkplace THEN "support" ELSE "optimize"
    /\ plan' = IF Workplaces[wp].category = "trading_stations"
               THEN [plan EXCEPT !.trading = Append(@, ProductRoom(result, wp))]
               ELSE [plan EXCEPT !.manufacture = Append(@, ProductRoom(result, wp))]
    /\ wp' = wp + 1
    /\ alloc' = NoAllocation
    /\ result' = NoResult
    /\ UNCHANGED << operators, efficiency_data, efficiency_rules, config_data,
                    fiammetta_enable, fiammetta_targets, current_product, shift,
                    plans, str_hash_order, run, first_plans, rerun_kind >>

\* lines 909-917: the control-center and dormitory rooms of the shift
AssignSupportRooms ==
    /\ pc = "support"
    /\ \E order \in HashOrders :
          /\ IF str_hash_order # NoOrder THEN order = str_hash_order
             ELSE IF Cardinality(control_operators) < 2 /\ Cardinality(dormitory_operators) < 2
                  THEN order = AllNames
                  ELSE TRUE
          /\ str_hash_order' =
                IF str_hash_order = NoOrder
                   /\ Cardinality(control_operators) < 2
                   /\ Cardinality(dormitory_operators) < 2
                THEN NoOrder ELSE order
          /\ plan' = [plan EXCEPT !.control = ListOfSet(control_operators, order),
                                  !.dormitory = ListOfSet(dormitory_operators, order)]
    /\ wp' = FirstPlainWorkplace
    /\ pc' = "optimize"
    /\ UNCHANGED << operators, efficiency_data, efficiency_rules, config_data,
                    fiammetta_enable, fiammetta_targets, current_product,
                    operator_usage, shift_used_names, control_operators,
                    dormitory_operators, shift, alloc, result, plans, run,
                    first_plans, rerun_kind, non_trading_names >>

\* lines 920-924 and 927-932: the room of the meeting room or of a power station
CollectPlainRoom ==
    /\ pc = "returned"
    /\ Workplaces[wp].category \in {"meeting_room", "power_station"}
    /\ plan' = IF Workplaces[wp].category = "meeting_room"
               THEN [plan EXCEPT !.meeting = <<PlainRoom(result)>>]
               ELSE [plan EXCEPT !.power = Append(@, PlainRoom(result))]
    /\ wp' = wp + 1
    /\ pc' = IF wp = Len(Workplaces) THEN "shift_end" ELSE "optimize"
    /\ alloc' = NoAllocation
    /\ result' = NoResult
    /\ UNCHANGED << operators, efficiency_data, efficiency_rules, config_data,
                    fiammetta_enable, fiammetta_targets, current_product,
                    operator_usage, shift_used_names, control_operators,
                    dormitory_operators, shift, plans, str_hash_order, run,
                    first_plans, rerun_kind, non_trading_names >>

\* line 934, then the next shift or the return of line 936
EndShift ==
    /\ pc = "shift_end"
    /\ plans' = Append(plans, plan)
    /\ shift' = shift + 1
    /\ pc' = IF shift + 1 < ShiftCount THEN "shift" ELSE "done"
    /\ UNCHANGED << operators, efficiency_data, efficiency_rules, config_data,
                    fiammetta_enable, fiammetta_targets, current_product,
                    operator_usage, shift_used_names, control_operators,
                    dormitory_operators, wp, alloc, result, plan, str_hash_order,
                    run, first_plans, rerun_kind, non_trading_names >>

Next ==
    \/ Start
    \/ BeginShift
    \/ OptimizeWorkplace
    \/ RecursiveIteration
    \/ RecursiveBreak
    \/ CollectProductRoom
    \/ AssignSupportRooms
    \/ CollectPlainRoom
    \/ EndShift

Spec == Init /\ [][Next]_vars

-----------------------------------------------------------------------------
(* A second run on the same inputs *)

\* get_optimal_assignments is called again on the same optimizer
SecondCall ==
    /\ pc = "done"
    /\ run = 1
    /\ first_plans' = plans
    /\ run' = 2
    /\ rerun_kind' = "same_optimizer"
    /\ pc' = "start"
    /\ UNCHANGED << operators, efficiency_data, efficiency_rules, config_data,
                    fiammetta_enable, fiammetta_targets, current_product,
                    operator_usage, shift_used_names, control_operators,
                    dormitory_operators, shift, wp, alloc, result, plan, plans,
                    str_hash_order, non_trading_names >>

\* the pipeline is started again, in a new process, on the same files
NewProcessRun ==
    /\ pc = "done"
    /\ run = 1
    /\ first_plans' = plans
    /\ run' = 2
    /\ rerun_kind' = "new_process"
    /\ str_hash_order' = NoOrder
    /\ efficiency_rules' = LoadEfficiencyRules(efficiency_data)
    /\ fiammetta_enable' = FALSE
    /\ fiammetta_targets' = <<>>
    /\ current_product' = [w \in 1..Len(Workplaces) |-> ""]
    /\ operator_usage' = EmptyDict
    /\ shift_used_names' = {}
    /\ control_operators' = {}
    /\ dormitory_operators' = {}
    /\ shift' = 0
    /\ wp' = 0
    /\ pc' = "start"
    /\ alloc' = NoAllocation
    /\ result' = NoResult
    /\ plan' = NoPlan
    /\ plans' = <<>>
    /\ non_trading_names' = {}
    /\ UNCHANGED << operators, efficiency_data, config_data >>

NextRerun == Next \/ SecondCall \/ NewProcessRun

SpecRerun == Init /\ [][NextRerun]_vars

-----------------------------------------------------------------------------
(* The rule compiler run rule by rule: load_efficiency_rules on any specification *)

\* the token 'name/x', whose tier part is not an integer literal
TokText(name) == [name |-> name, tier_text |-> "x"]

\* the rule declaration without its 'efficiency' key
WithoutEfficiency(d) == [f \in (DOMAIN d) \ {"efficiency"} |-> d[f]]

\* the rule declarations of RulePool followed by a rule with a malformed tier
\* part, a rule without synergy value and a rule under a category that is not
\* one of the four workplace categories
CompilePool ==
    RulePool \o <<
    \* 11: power station, [A/x]
    ListRule("power_station", GenericSystem, <<TokText("A")>>, 5),
    \* 12: power station, [B] without 'efficiency'
    WithoutEfficiency(ListRule("power_station", GenericSystem, <<Tok("B")>>, 5)),
    \* 13: the category 'dormitory', [C]
    ListRule("dormitory", GenericSystem, <<Tok("C")>>, 10)
    >>

\* the rule specifications the compiler is run on
CompileSelections == {sel \in SUBSET (1..Len(CompilePool)) : Cardinality(sel) <= MaxRules}

\* the declarations of a selection of CompilePool, in declaration order
CompileDeclarations(sel) ==
    SelectSeq(CompilePool, LAMBDA d : \E i \in sel : CompilePool[i] = d)

\* every token parse_operator_string is called on for one declared rule
RuleTokens(d) ==
    (IF d.form = "list" THEN d.combo ELSE d.base_combo \o d.combo)
    \o d.control_center \o d.dormitory \o d.power_station

\* compiling the declared rule raises: ValueError for a tier part that is no
\* integer literal, KeyError for rule_data['efficiency']
CompileRaises(d) ==
    \/ \E i \in 1..Len(RuleTokens(d)) : ParseOperatorString(RuleTokens(d)[i]).error
    \/ "efficiency" \notin DOMAIN d

\* __init__ up to the call of load_efficiency_rules
InitCompile ==
    /\ operators \in Catalogs
    /\ \E sel \in CompileSelections : efficiency_data = CompileDeclarations(sel)
    /\ efficiency_rules = <<>>
    /\ config_data = [Fiammetta_enable |-> FALSE, product_requirements |-> ProductRequirements]
    /\ fiammetta_enable = FALSE
    /\ fiammetta_targets = <<>>
    /\ current_product = [w \in 1..Len(Workplaces) |-> ""]
    /\ operator_usage = EmptyDict
    /\ shift_used_names = {}
    /\ control_operators = {}
    /\ dormitory_operators = {}
    /\ shift = 0
    /\ wp = 0
    /\ pc = "load"
    /\ alloc = NoAllocation
    /\ result = NoResult
    /\ plan = NoPlan
    /\ plans = <<>>
    /\ str_hash_order = NoOrder
    /\ run = 1
    /\ first_plans = <<>>
    /\ rerun_kind = "none"
    /\ non_trading_names = {}

\* one pass of the loops of lines 135-251: the next declared rule is compiled
\* and appended to expanded_rules (held in efficiency_rules while loading)
CompileNextRule ==
    /\ pc = "load"
    /\ Len(efficiency_rules) < Len(efficiency_data)
    /\ ~CompileRaises(efficiency_data[Len(efficiency_rules) + 1])
    /\ efficiency_rules' =
          Append(efficiency_rules, CompileRule(efficiency_data[Len(efficiency_rules) + 1]))
    /\ UNCHANGED << operators, efficiency_data, config_data, fiammetta_enable,
                    fiammetta_targets, current_product, operator_usage,
                    shift_used_names, control_operators, dormitory_operators, shift,
                    wp, pc, alloc, result, plan, plans, str_hash_order, run,
                    first_plans, rerun_kind, non_trading_names >>

\* the next declared rule raises: the exception leaves __init__, no rule table
\* is assigned and no optimizer exists
CompileError ==
    /\ pc = "load"
    /\ Len(efficiency_rules) < Len(efficiency_data)
    /\ CompileRaises(efficiency_data[Len(efficiency_rules) + 1])
    /\ efficiency_rules' = <<>>
    /\ pc' = "config_error"
    /\ UNCHANGED << operators, efficiency_data, config_data, fiammetta_enable,
                    fiammetta_targets, current_product, operator_usage,
                    shift_used_names, control_operators, dormitory_operators, shift,
                    wp, alloc, result, plan, plans, str_hash_order, run,
                    first_plans, rerun_kind, non_trading_names >>

\* lines 253-258: the sort and the return of the rule table
SortTable ==
    /\ pc = "load"
    /\ Len(efficiency_rules) = Len(efficiency_data)
    /\ efficiency_rules' = SortRules(efficiency_rules)
    /\ pc' = "loaded"
    /\ UNCHANGED << operators, efficiency_data, config_data, fiammetta_enable,
                    fiammetta_targets, current_product, operator_usage,
                    shift_used_names, control_operators, dormitory_operators, shift,
                    wp, alloc, result, plan, plans, str_hash_order, run,
                    first_plans, rerun_kind, non_trading_names >>

NextCompile == CompileNextRule \/ CompileError \/ SortTable

SpecCompile == InitCompile /\ [][NextCompile]_vars

-----------------------------------------------------------------------------
(* The rule compiler on structured system entries *)

SysProviso == <<"dan", "shu", "ti", "xi">>

SysGold == <<"chi", "jin", "zu">>

\* the base_combo ['Proviso/2', 'Tequila'] of the first structured entry
ProvisoBase == <<TokTier("Proviso", 2), Tok("Tequila")>>

\* the rule declarations of a specification with two structured entries: a
\* trading system with base_combo and product 'LMD', and a manufacturing
\* system with base_combo and no product
StructuredPool == <<
    \* 1: no combo: the base combination alone
    SystemRule("trading_station", SysProviso, ProvisoBase, <<"LMD">>, <<>>, 10),
    \* 2: combo ['Proviso/1']: a tier for a name the base combination has a tier for
    SystemRule("trading_station", SysProviso, ProvisoBase, <<"LMD">>,
               <<TokTier("Proviso", 1)>>, 15),
    \* 3: combo ['Tequila/2', 'A'] with its own product ['Orundum']
    [SystemRule("trading_station", SysProviso, ProvisoBase, <<"LMD">>,
                <<TokTier("Tequila", 2), Tok("A")>>, 20)
        EXCEPT !.has_product = TRUE, !.product = <<"Orundum">>],
    \* 4: combo ['Proviso', 'B/0']: tokens without tier and with tier 0
    SystemRule("trading_station", SysProviso, ProvisoBase, <<"LMD">>,
               <<Tok("Proviso"), TokTier("B", 0)>>, 25),
    \* 5: combo ['A/x']
    SystemRule("trading_station", SysProviso, ProvisoBase, <<"LMD">>, <<TokText("A")>>, 30),
    \* 6: manufacturing, base_combo ['B/1'], combo ['C', 'B/2']
    SystemRule("manufacturing_station", SysGold, <<TokTier("B", 1)>>, <<>>,
               <<Tok("C"), TokTier("B", 2)>>, 10),
    \* 7: manufacturing, the same entry, combo ['C/1'] with its own product
    [SystemRule("manufacturing_station", SysGold, <<TokTier("B", 1)>>, <<>>,
                <<TokTier("C", 1)>>, 20)
        EXCEPT !.has_product = TRUE, !.product = <<"Pure Gold">>]
    >>

\* the rule specifications: the sub-lists of StructuredPool of at most MaxRules rules
StructuredSelections ==
    {sel \in SUBSET (1..Len(StructuredPool)) : Cardinality(sel) <= MaxRules}

\* the declarations of a selection of StructuredPool, in declaration order
StructuredDeclarations(sel) ==
    SelectSeq(StructuredPool, LAMBDA d : \E i \in sel : StructuredPool[i] = d)

\* __init__ up to the call of load_efficiency_rules
InitStructured ==
    /\ operators \in Catalogs
    /\ \E sel \in StructuredSelections : efficiency_data = StructuredDeclarations(sel)
    /\ efficiency_rules = <<>>
    /\ config_data = [Fiammetta_enable |-> FALSE, product_requirements |-> ProductRequirements]
    /\ fiammetta_enable = FALSE
    /\ fiammetta_targets = <<>>
    /\ current_product = [w \in 1..Len(Workplaces) |-> ""]
    /\ operator_usage = EmptyDict
    /\ shift_used_names = {}
    /\ control_operators = {}
    /\ dormitory_operators = {}
    /\ shift = 0
    /\ wp = 0
    /\ pc = "load"
    /\ alloc = NoAllocation
    /\ result = NoResult
    /\ plan = NoPlan
    /\ plans = <<>>
    /\ str_hash_order = NoOrder
    /\ run = 1
    /\ first_plans = <<>>
    /\ rerun_kind = "none"
    /\ non_trading_names = {}

SpecStructured == InitStructured /\ [][NextCompile]_vars

-----------------------------------------------------------------------------
(* The cycle on rule specifications with ties across groups and with
   synergy values that are not positive *)

SysPower == <<"fa", "dian", "zu">>

\* rule declarations in the order category -> system -> rule of their file
EdgePool == <<
    \* 1: trading, system entry with base_combo ['Shamare/2'] and product 'LMD'
    RulePool[1],
    \* 2: trading, generic key, apply_each over [A, B] of 10
    [ListRule("trading_station", GenericSystem, <<Tok("A"), Tok("B")>>, 10)
        EXCEPT !.apply_each = TRUE],
    \* 3: trading, generic key, [C] of 0
    ListRule("trading_station", GenericSystem, <<Tok("C")>>, 0),
    \* 4: trading, generic key, [A, C] of -1
    ListRule("trading_station", GenericSystem, <<Tok("A"), Tok("C")>>, 0 - 1),
    \* 5: power station, generic key, [B] of 5
    ListRule("power_station", GenericSystem, <<Tok("B")>>, 5),
    \* 6: power station, named system, [C] of 5
    ListRule("power_station", SysPower, <<Tok("C")>>, 5),
    \* 7: power station, named system, [A] of -5
    ListRule("power_station", SysPower, <<Tok("A")>>, 0 - 5)
    >>

\* the rule specifications: the sub-lists of EdgePool of at most MaxRules rules
EdgeSelections == {sel \in SUBSET (1..Len(EdgePool)) : Cardinality(sel) <= MaxRules}

\* the declarations of a selection of EdgePool, in declaration order
EdgeDeclarations(sel) == SelectSeq(EdgePool, LAMBDA d : \E i \in sel : EdgePool[i] = d)

\* __init__ on a rule specification drawn from EdgePool
InitEdge ==
    /\ operators \in Catalogs
    /\ \E sel \in EdgeSelections :
          /\ efficiency_data = EdgeDeclarations(sel)
          /\ efficiency_rules = LoadEfficiencyRules(EdgeDeclarations(sel))
    /\ config_data \in {[Fiammetta_enable |-> e, product_requirements |-> ProductRequirements] :
                         e \in BOOLEAN}
    /\ fiammetta_enable = FALSE
    /\ fiammetta_targets = <<>>
    /\ current_product = [w \in 1..Len(Workplaces) |-> ""]
    /\ operator_usage = EmptyDict
    /\ shift_used_names = {}
    /\ control_operators = {}
    /\ dormitory_operators = {}
    /\ shift = 0
    /\ wp = 0
    /\ pc = "start"
    /\ alloc = NoAllocation
    /\ result = NoResult
    /\ plan = NoPlan
    /\ plans = <<>>
    /\ str_hash_order = NoOrder
    /\ run = 1
    /\ first_plans = <<>>
    /\ rerun_kind = "none"
    /\ non_trading_names = {}

SpecEdge == InitEdge /\ [][Next]_vars

-----------------------------------------------------------------------------
(* Runs over configurations that differ in their product_requirements *)

\* one (product, count) item of a requested-quantity mapping
Quantity(product, count) == [product |-> product, count |-> count]

\* the trading_stations mappings of the configurations, in mapping order
TradingMappings ==
    { <<Quantity("LMD", 1), Quantity("Orundum", 0)>>,
      <<Quantity("LMD", 0), Quantity("Orundum", 1)>>,
      <<Quantity("Orundum", 1), Quantity("LMD", 1)>>,
      <<Quantity("LMD", 2), Quantity("Orundum", 1)>>,
      <<>> }

\* the manufacturing_stations mappings of the configurations
ManufacturingMappings ==
    { <<Quantity("Pure Gold", 0), Quantity("Battle Record", 1)>>,
      <<>> }

\* the configurations: without product_requirements, or with one of the mappings
ProductConfigs ==
    {[Fiammetta_enable |-> e] : e \in BOOLEAN}
    \cup {[Fiammetta_enable |-> e,
           product_requirements |-> [trading_stations |-> t, manufacturing_stations |-> m]] :
          e \in BOOLEAN, t \in TradingMappings, m \in ManufacturingMappings}

\* the rules of RulePool the rule specifications of these runs declare
ProductRuleIndices == {1, 3, 4, 7, 10}

\* the rule specifications of these runs
ProductSelections == {sel \in RuleSelections : sel \subseteq ProductRuleIndices}

\* __init__ on one catalog, rule specification and configuration
InitProducts ==
    /\ operators \in Catalogs
    /\ \E sel \in ProductSelections :
          /\ efficiency_data = Declarations(sel)
          /\ efficiency_rules = LoadEfficiencyRules(Declarations(sel))
    /\ config_data \in ProductConfigs
    /\ fiammetta_enable = FALSE
    /\ fiammetta_targets = <<>>
    /\ current_product = [w \in 1..Len(Workplaces) |-> ""]
    /\ operator_usage = EmptyDict
    /\ shift_used_names = {}
    /\ control_operators = {}
    /\ dormitory_operators = {}
    /\ shift = 0
    /\ wp = 0
    /\ pc = "start"
    /\ alloc = NoAllocation
    /\ result = NoResult
    /\ plan = NoPlan
    /\ plans = <<>>
    /\ str_hash_order = NoOrder
    /\ run = 1
    /\ first_plans = <<>>
    /\ rerun_kind = "none"
    /\ non_trading_names = {}

SpecProducts == InitProducts /\ [][Next]_vars

-----------------------------------------------------------------------------
(* The boost selector over catalogs that hold the three preferred operators *)

\* the states of one operator of these catalogs: not owned, owned below
\* elite 2, owned at elite 2
BoostOperatorStates ==
    {[elite |-> 2, own |-> FALSE], [elite |-> 1, own |-> TRUE], [elite |-> 2, own |-> TRUE]}

\* load_operators over the catalogs of these runs
BoostCatalogs ==
    {ops \in [{"A", "B", "C", "Fiammetta", "Proviso", "Shamare", "Tequila"}
                 -> BoostOperatorStates] :
        ops["Fiammetta"].elite = 2}

\* the rule declarations of these runs
BoostRulePool == <<
    \* 1: trading, [A, B] of 30
    ListRule("trading_station", SysCombo, <<Tok("A"), Tok("B")>>, 30),
    \* 2: trading, [C, Shamare] of 40
    ListRule("trading_station", SysCombo, <<Tok("C"), Tok("Shamare")>>, 40),
    \* 3: trading, [A/2] of 10
    ListRule("trading_station", GenericSystem, <<TokTier("A", 2)>>, 10),
    \* 4: trading, [Tequila, B, Fiammetta] of 15
    ListRule("trading_station", GenericSystem,
             <<Tok("Tequila"), Tok("B"), Tok("Fiammetta")>>, 15),
    \* 5: manufacturing, [C] of 90
    ListRule("manufacturing_station", GenericSystem, <<Tok("C")>>, 90)
    >>

\* the rule specifications of these runs
BoostSelections ==
    {sel \in SUBSET (1..Len(BoostRulePool)) : Cardinality(sel) <= MaxRules}

\* the declarations of a selection of BoostRulePool, in declaration order
BoostDeclarations(sel) ==
    SelectSeq(BoostRulePool, LAMBDA d : \E i \in sel : BoostRulePool[i] = d)

\* __init__ on one catalog, rule specification and configuration
InitBoost ==
    /\ operators \in BoostCatalogs
    /\ \E sel \in BoostSelections :
          /\ efficiency_data = BoostDeclarations(sel)
          /\ efficiency_rules = LoadEfficiencyRules(BoostDeclarations(sel))
    /\ config_data \in {[Fiammetta_enable |-> e, product_requirements |-> ProductRequirements] :
                         e \in BOOLEAN}
    /\ fiammetta_enable = FALSE
    /\ fiammetta_targets = <<>>
    /\ current_product = [w \in 1..Len(Workplaces) |-> ""]
    /\ operator_usage = EmptyDict
    /\ shift_used_names = {}
    /\ control_operators = {}
    /\ dormitory_operators = {}
    /\ shift = 0
    /\ wp = 0
    /\ pc = "start"
    /\ alloc = NoAllocation
    /\ result = NoResult
    /\ plan = NoPlan
    /\ plans = <<>>
    /\ str_hash_order = NoOrder
    /\ run = 1
    /\ first_plans = <<>>
    /\ rerun_kind = "none"
    /\ non_trading_names = {}

\* get_optimal_assignments up to the first period: the call of
\* select_fiammetta_targets and the assignment of its result
SpecBoost == InitBoost /\ [][Start]_vars

-----------------------------------------------------------------------------
(* The cycle over catalogs in which the boost list has up to three names *)

\* load_operators over the catalogs of these runs: each preferred operator is
\* owned at elite 2 or not owned
TargetCatalogs ==
    {[n \in {"A", "B", "C", "Fiammetta", "Proviso", "Shamare", "Tequila"} |->
        CASE n = "A" -> [elite |-> aElite, own |-> TRUE]
          [] n = "B" -> [elite |-> 0, own |-> TRUE]
          [] n = "C" -> [elite |-> 0, own |-> TRUE]
          [] n = "Fiammetta" -> [elite |-> 2, own |-> TRUE]
          [] n = "Proviso" -> [elite |-> 2, own |-> pOwn]
          [] n = "Shamare" -> [elite |-> 2, own |-> sOwn]
          [] n = "Tequila" -> [elite |-> 2, own |-> tOwn]] :
     aElite \in {0, 2}, pOwn \in BOOLEAN, sOwn \in BOOLEAN, tOwn \in BOOLEAN}

\* __init__ on one catalog, rule specification and configuration
InitTargets ==
    /\ operators \in TargetCatalogs
    /\ \E sel \in ProductSelections :
          /\ efficiency_data = Declarations(sel)
          /\ efficiency_rules = LoadEfficiencyRules(Declarations(sel))
    /\ config_data \in {[Fiammetta_enable |-> e, product_requirements |-> ProductRequirements] :
                         e \in BOOLEAN}
    /\ fiammetta_enable = FALSE
    /\ fiammetta_targets = <<>>
    /\ current_product = [w \in 1..Len(Workplaces) |-> ""]
    /\ operator_usage = EmptyDict
    /\ shift_used_names = {}
    /\ control_operators = {}
    /\ dormitory_operators = {}
    /\ shift = 0
    /\ wp = 0
    /\ pc = "start"
    /\ alloc = NoAllocation
    /\ result = NoResult
    /\ plan = NoPlan
    /\ plans = <<>>
    /\ str_hash_order = NoOrder
    /\ run = 1
    /\ first_plans = <<>>
    /\ rerun_kind = "none"
    /\ non_trading_names = {}

SpecTargets == InitTargets /\ [][Next]_vars

-----------------------------------------------------------------------------
(* Properties *)

\* the applications made so far by the running (or just returned) call
Applications == alloc.applications

\* the workplace type of the running call
CurrentType == get_workplace_type(Workplaces[wp])

\* an allocator call is running or has just returned
InCall == pc \in {"recursive", "returned"}

\* the concatenation of a list of lists
RECURSIVE Flatten(_)
Flatten(lists) == IF Len(lists) = 0 THEN <<>> ELSE lists[1] \o Flatten(Tail(lists))

\* the assigned lists of the workplaces of one plan, room by room
RoomLists(p) ==
    [i \in 1..Len(p.trading) |-> p.trading[i].operators]
    \o [i \in 1..Len(p.manufacture) |-> p.manufacture[i].operators]
    \o [i \in 1..Len(p.meeting) |-> p.meeting[i].operators]
    \o [i \in 1..Len(p.power) |-> p.power[i].operators]

\* no element occurs twice in the list
NoDuplicates(list) == \A i, j \in 1..Len(list) : list[i] = list[j] => i = j

\* C1: at every point of the cycle every usage count is at most 2, or is 3 for
\* an operator of the quota-boost list that was placed in trading workplaces only
C1_UsageBudget ==
    \A n \in DOMAIN operator_usage :
        \/ operator_usage[n] <= 2
        \/ /\ operator_usage[n] = 3
           /\ InList(n, fiammetta_targets)
           /\ n \notin non_trading_names

\* C2: within a shift no operator is in the assigned lists of two workplaces,
\* nor twice in the list of one workplace
C2_Exclusivity ==
    /\ NoDuplicates(Flatten(RoomLists(plan)) \o alloc.assigned_ops)
    /\ \A k \in 1..Len(plans) : NoDuplicates(Flatten(RoomLists(plans[k])))

\* C3: a rule is applied only if each of its control-center, dormitory and
\* power-station requirements names an owned catalog operator of sufficient tier
C3_SupportRequirements ==
    \A k \in 1..Len(Applications) :
        /\ RequirementsMet(Applications[k].rule.requires_control_center)
        /\ RequirementsMet(Applications[k].rule.requires_dormitory)
        /\ RequirementsMet(Applications[k].rule.requires_power_station)

\* C4: every application of an apply_each rule assigns one operator, costs one
\* slot and adds the rule's undivided synergy
C4_ApplyEach ==
    \A k \in 1..Len(Applications) :
        Applications[k].rule.apply_each =>
            /\ Len(Applications[k].required) = 1
            /\ Applications[k].slots_used = 1
            /\ Applications[k].slots_before - 1 =
                  (IF k < Len(Applications) THEN Applications[k + 1].slots_before
                   ELSE alloc.remaining_slots)
            /\ Applications[k].efficiency = Applications[k].rule.synergy_efficiency

\* C5: every operator an application assigns has at least the tier the rule's
\* override asks of it
C5_TierOverrides ==
    \A k \in 1..Len(Applications) :
        \A i \in 1..Len(Applications[k].required) :
            LET n == Applications[k].required[i]
                reqs == Applications[k].rule.elite_requirements
            IN n \in DOMAIN reqs => operators[n].elite >= reqs[n]

\* an application assigned an operator for which its rule has an override
C5_HasOverride(app) ==
    \E i \in 1..Len(app.required) : app.required[i] \in DOMAIN app.rule.elite_requirements

\* C5 witness: a whole-group application and a single-operator application of
\* an apply_each rule, each of a rule with an override for an assigned operator
C5_Witness ==
    /\ \E k \in 1..Len(Applications) :
          Len(Applications[k].required) = 1 /\ Applications[k].rule.apply_each
          /\ C5_HasOverride(Applications[k])
    /\ \E r \in 1..Len(plan.trading) : plan.trading[r].operators = <<"Shamare">>
    /\ \E j \in 1..Len(efficiency_rules) :
          /\ efficiency_rules[j].operators = <<"Shamare">>
          /\ "Shamare" \in DOMAIN efficiency_rules[j].elite_requirements

\* used_names of the call at the point where the next selection is made
SelectionUsedNames == IF pc = "optimize" THEN {} ELSE alloc.used_names

\* remaining_slots of the call at the point where the next selection is made
SelectionRemaining ==
    IF pc = "optimize" THEN Workplaces[wp].max_operators ELSE alloc.remaining_slots

\* this step applies a candidate
AppliesCandidate ==
    /\ pc \in {"optimize", "recursive"}
    /\ Len(alloc'.applications) = (IF pc = "optimize" THEN 0 ELSE Len(Applications)) + 1

\* the application this step makes
NewApplication == alloc'.applications[Len(alloc'.applications)]

\* a rule passes the eligibility checks for the operators in names
Eligible(rule, names) ==
    /\ \A n \in names :
          n \in DOMAIN rule.elite_requirements
             => operators[n].elite >= rule.elite_requirements[n]
    /\ RequirementsMet(rule.requires_control_center)
    /\ RequirementsMet(rule.requires_dormitory)
    /\ RequirementsMet(rule.requires_power_station)

\* an operator is owned, free in this shift and this call, and under its cap
Free(n) ==
    /\ n \in DOMAIN operators
    /\ operators[n].own
    /\ n \notin SelectionUsedNames
    /\ n \notin shift_used_names
    /\ DictGet(operator_usage, n, 0) <
          (IF InList(n, fiammetta_targets) /\ CurrentType = "trading_station" THEN 3 ELSE 2)

\* the per-slot efficiencies [num, den] of the candidates that are available,
\* fit the remaining capacity and are eligible at this selection: one per
\* operator of an apply_each rule, one per whole-group rule
QualifiedScores ==
    LET rules == AllRules(wp)
    IN {[num |-> rules[k].synergy_efficiency, den |-> 1] :
            k \in {j \in 1..Len(rules) :
                    /\ rules[j].apply_each
                    /\ SelectionRemaining >= 1
                    /\ \E i \in 1..Len(rules[j].operators) :
                          Free(rules[j].operators[i])
                          /\ Eligible(rules[j], {rules[j].operators[i]})}}
       \cup
       {[num |-> rules[k].synergy_efficiency, den |-> Len(rules[k].operators)] :
            k \in {j \in 1..Len(rules) :
                    /\ ~rules[j].apply_each
                    /\ Len(rules[j].operators) <= SelectionRemaining
                    /\ \A i \in 1..Len(rules[j].operators) : Free(rules[j].operators[i])
                    /\ Eligible(rules[j], Range(rules[j].operators))}}

\* the applied candidate has the highest per-slot efficiency of the qualified ones
C6_BestApplied ==
    AppliesCandidate =>
        \A c \in QualifiedScores :
            c.num * NewApplication.slots_used <= NewApplication.efficiency * c.den

\* the scenario: capacity 2, A at tier 2, B owned at tier 0, the combination
\* [A/2, B] of 50 and the apply_each rule over [A, B] of 10; the first trading
\* station of the first shift gets A and B by the combination alone
C6_Scenario ==
    (/\ pc = "returned" /\ shift = 0 /\ wp = 1
     /\ efficiency_data = Declarations({3, 4})
     /\ operators["A"].elite = 2 /\ operators["B"].own)
    => /\ result.optimal_operators = <<"A", "B">>
       /\ result.operator_efficiency = 50
       /\ Len(Applications) = 1
       /\ Applications[1].rule.operators = <<"A", "B">>
       /\ ~Applications[1].rule.apply_each
       /\ alloc.remaining_slots = 0

\* C6: in every allocator iteration the applied candidate has the maximum
\* per-slot efficiency among the qualified candidates (apply_each candidates
\* costing one slot), and the scenario ends with the combination applied alone
C6_MaxPerSlot == [][C6_BestApplied /\ C6_Scenario']_vars

\* the operator is in the quota-boost list
Boosted(n) == InList(n, fiammetta_targets)

\* C7: the usage-budget check accepts an operator of the quota-boost list at
\* count 2 for a trading workplace and rejects every operator at count 3; an
\* operator outside the list, or any operator considered for a workplace that
\* is not a trading workplace, is rejected at count 2
C7_BoostedBudget ==
    /\ \A k \in 1..Len(Applications) : \A i \in 1..Len(Applications[k].required) :
          LET n == Applications[k].required[i]
              count == Applications[k].usage_before[i]
          IN /\ count <= 2
             /\ count = 2 =>
                   Boosted(n) /\ Applications[k].rule.workplace_type = "trading_station"
    /\ pc \in {"optimize", "recursive"} =>
          \A n \in OpByName :
             LET count == DictGet(operator_usage, n, 0)
                 rejected == Unavailable(n, CurrentType, SelectionUsedNames)
             IN /\ count >= 3 => rejected
                /\ (count = 2 /\ ~(Boosted(n) /\ CurrentType = "trading_station"))
                      => rejected
                /\ (/\ count = 2 /\ Boosted(n) /\ CurrentType = "trading_station"
                    /\ n \notin SelectionUsedNames /\ n \notin shift_used_names)
                      => ~rejected

\* a boosted operator is placed in a trading workplace for the third time, and
\* is then rejected at count 3
C7_Witness ==
    /\ \E k \in 1..Len(Applications) : \E i \in 1..Len(Applications[k].required) :
          /\ Applications[k].usage_before[i] = 2
          /\ Boosted(Applications[k].required[i])
          /\ Applications[k].rule.workplace_type = "trading_station"
          /\ operator_usage[Applications[k].required[i]] = 3
    /\ shift = 2

\* the operator is in the catalog and owned
Owned(n) == n \in DOMAIN operators /\ operators[n].own

\* C8: a whole-group rule that names an operator that is not owned is never
\* applied, every operator of every assigned list is owned, and when a call
\* returns with capacity left no qualified candidate is left unapplied
C8_OwnedOnly ==
    /\ \A k \in 1..Len(Applications) :
          /\ ~Applications[k].rule.apply_each =>
                \A i \in 1..Len(Applications[k].rule.operators) :
                   Owned(Applications[k].rule.operators[i])
          /\ \A i \in 1..Len(Applications[k].required) : Owned(Applications[k].required[i])
    /\ \A i \in 1..Len(alloc.assigned_ops) : Owned(alloc.assigned_ops[i])
    /\ \A i \in 1..Len(result.optimal_operators) : Owned(result.optimal_operators[i])
    /\ \A n \in Range(Flatten(RoomLists(plan))) : Owned(n)
    /\ \A k \in 1..Len(plans) : \A n \in Range(Flatten(RoomLists(plans[k]))) : Owned(n)
    /\ (pc = "returned" /\ alloc.remaining_slots >= 1) => QualifiedScores = {}

\* a workplace has a whole-group rule that names an operator that is not owned
\* beside an owned one, and another candidate was applied there
C8_Witness ==
    /\ pc = "returned"
    /\ \E j \in 1..Len(AllRules(wp)) :
          /\ ~AllRules(wp)[j].apply_each
          /\ \E n \in Range(AllRules(wp)[j].operators) : ~Owned(n)
          /\ \E n \in Range(AllRules(wp)[j].operators) :
                Owned(n) /\ n \notin Range(alloc.assigned_ops)
    /\ \E k \in 1..Len(Applications) : Applications[k].rule.apply_each

\* C9: a second run on the same catalog, configuration and rules returns the
\* plans of the first run, the order of the control-center and dormitory lists
\* included, whether it is a second call on the same optimizer or a new run
C9_Determinism == (run = 2 /\ pc = "done") => plans = first_plans

\* a second call of get_optimal_assignments on the same optimizer returns the
\* plans of the first call
C9_SecondCallSame ==
    (run = 2 /\ pc = "done" /\ rerun_kind = "same_optimizer") => plans = first_plans

\* the rooms of the plan, which are collected in the order of the workplaces,
\* hold no more operators than their workplaces
WithinCapacity(p) ==
    \A i \in 1..Len(RoomLists(p)) : Len(RoomLists(p)[i]) <= Workplaces[i].max_operators

\* C10: no assigned list is longer than the capacity of its workplace, the
\* remaining capacity is never negative, and no applied candidate costs more
\* slots than the capacity that remained
C10_Capacity ==
    /\ alloc.remaining_slots >= 0
    /\ InCall => /\ Len(alloc.assigned_ops) <= Workplaces[wp].max_operators
                 /\ Len(result.optimal_operators) <= Workplaces[wp].max_operators
    /\ \A k \in 1..Len(Applications) :
          /\ Applications[k].slots_used <= Applications[k].slots_before
          /\ Len(Applications[k].required) <= Applications[k].slots_before
    /\ WithinCapacity(plan)
    /\ \A k \in 1..Len(plans) : WithinCapacity(plans[k])

\* a call returns for a workplace that has a rule which needs more slots than
\* the workplace offers, with an operator placed and no capacity left
C10_Witness ==
    /\ pc = "returned"
    /\ \E j \in 1..Len(AllRules(wp)) :
          Len(AllRules(wp)[j].operators) > Workplaces[wp].max_operators
    /\ Len(alloc.assigned_ops) = Workplaces[wp].max_operators
    /\ alloc.remaining_slots = 0

\* the largest capacity of a workplace
MaxCapacity ==
    CHOOSE c \in {Workplaces[w].max_operators : w \in 1..Len(Workplaces)} :
        \A w \in 1..Len(Workplaces) : Workplaces[w].max_operators <= c

\* the steps one workplace can still take: the first selection, one iteration
\* per remaining slot, the break, and the collection of its room
WorkplaceSpan == MaxCapacity + 4

\* the steps one shift can still take
ShiftSpan == (Len(Workplaces) + 1) * WorkplaceSpan + 2

\* a bound on the number of steps the cycle can still take
Rank ==
    CASE pc = "start" -> (ShiftCount + 1) * ShiftSpan
      [] pc = "shift" -> (ShiftCount - shift) * ShiftSpan + ShiftSpan - 1
      [] pc = "shift_end" -> (ShiftCount - shift) * ShiftSpan + 1
      [] pc \in {"optimize", "recursive", "returned", "support"} ->
            (ShiftCount - shift) * ShiftSpan
            + (Len(Workplaces) + 1 - wp) * WorkplaceSpan
            + (CASE pc = "support" -> MaxCapacity + 3
                 [] pc = "optimize" -> MaxCapacity + 2
                 [] pc = "recursive" -> 1 + alloc.remaining_slots
                 [] OTHER -> 0)
      [] OTHER -> 0

\* C11: every iteration that applies a candidate takes at least one slot and
\* strictly lowers the remaining capacity, and every step of the cycle lowers
\* a natural-number bound on the steps still to come, so each call and the
\* three-shift cycle finish
C11_Terminates ==
    [][/\ AppliesCandidate =>
             /\ NewApplication.slots_used >= 1
             /\ alloc'.remaining_slots < SelectionRemaining
       /\ Rank \in Nat /\ Rank' \in Nat
       /\ Rank' < Rank
       /\ Rank = 0 <=> pc \in {"done", "error"}]_vars

\* the cycle finished after a call that went through the first selection and
\* an iteration of the slot-filling loop that applied a second candidate
C11_Witness ==
    /\ pc = "done"
    /\ Len(plans) = ShiftCount
    /\ \E r \in 1..Len(plans[1].trading) : plans[1].trading[r].operators = <<"B", "C">>

\* C12: the cycle never raises an error: folding the control-center and
\* dormitory requirements of a result into the support sets never fails
C12_NoError == pc # "error"

\* no operator named by a rule of the workplace is owned, free and under its cap
NoOperatorAvailable ==
    \A j \in 1..Len(AllRules(wp)) : \A n \in Range(AllRules(wp)[j].operators) : ~Free(n)

\* the rule passes the checks every selection makes for the operators in
\* names: their tier overrides and the control-center requirements
Checked(rule, names) ==
    /\ \A n \in names :
          n \in DOMAIN rule.elite_requirements
             => operators[n].elite >= rule.elite_requirements[n]
    /\ RequirementsMet(rule.requires_control_center)

\* no rule of the workplace qualifies at this selection, neither for one of
\* its operators alone (apply_each) nor for its whole group
NoRuleQualifies ==
    \A j \in 1..Len(AllRules(wp)) :
        LET rule == AllRules(wp)[j]
        IN /\ rule.apply_each =>
                 \A n \in Range(rule.operators) :
                    ~(SelectionRemaining >= 1 /\ Free(n) /\ Checked(rule, {n}))
           /\ ~rule.apply_each =>
                 ~(/\ Len(rule.operators) <= SelectionRemaining
                   /\ \A n \in Range(rule.operators) : Free(n)
                   /\ Checked(rule, Range(rule.operators)))

\* the result of a call that assigned nothing to workplace w
EmptyResult(r, w) ==
    /\ r.optimal_operators = <<>>
    /\ r.applied_combinations = <<>>
    /\ r.operator_efficiency = 0
    /\ r.total_efficiency = Workplaces[w].base_efficiency
    /\ r.control_center_requirements = <<>>
    /\ r.dormitory_requirements = <<>>
    /\ r.power_station_requirements = <<>>

\* the selection has no candidate: no capacity, no operator, or no rule
NothingEligible ==
    \/ SelectionRemaining = 0
    \/ NoOperatorAvailable
    \/ NoRuleQualifies

MalformedTier(d) == \E i \in 1..Len(RuleTokens(d)) : "tier" \notin DOMAIN RuleTokens(d)[i]

\* the declared rule has no synergy value
MissingSynergy(d) == "efficiency" \notin DOMAIN d

\* C14: a specification with a malformed tier part or a rule without synergy
\* value never yields a rule table: loading ends in the configuration error
\* with no table, and no such rule is ever compiled with a default
C14_CompileRejects ==
    /\ (\E k \in 1..Len(efficiency_data) :
           MalformedTier(efficiency_data[k]) \/ MissingSynergy(efficiency_data[k]))
          => /\ pc \in {"load", "config_error"}
             /\ pc = "load" => \A k \in 1..Len(efficiency_rules) :
                                  /\ ~MalformedTier(efficiency_data[k])
                                  /\ ~MissingSynergy(efficiency_data[k])
             /\ pc = "load" => Len(efficiency_rules) < Len(efficiency_data)
    /\ pc = "config_error" => efficiency_rules = <<>>
    /\ pc = "loaded" => \A k \in 1..Len(efficiency_data) :
                           /\ ~MalformedTier(efficiency_data[k])
                           /\ ~MissingSynergy(efficiency_data[k])

\* loading a specification that has a rule with a malformed tier part and a
\* rule without synergy value, after a well-formed rule, ended in the error
C14_Witness ==
    /\ pc = "config_error"
    /\ Len(efficiency_data) = 3
    /\ ~CompileRaises(efficiency_data[1])
    /\ \E k \in 1..Len(efficiency_data) : MalformedTier(efficiency_data[k])
    /\ \E k \in 1..Len(efficiency_data) : MissingSynergy(efficiency_data[k])

\* the workplace categories the allocator is ever asked for
WorkplaceCategories ==
    {"trading_station", "manufacturing_station", "meeting_room", "power_station"}

\* the specification declares a rule under a category that is no workplace category
UnknownCategoryDeclared ==
    \E k \in 1..Len(efficiency_data) :
       efficiency_data[k].workplace_type \notin WorkplaceCategories

\* C15: a specification with a rule under an unknown workplace category is
\* rejected at compile time: loading it never ends with a rule table
C15_UnknownCategoryRejected == UnknownCategoryDeclared => pc # "loaded"

\* the sort key of line 253: (priority, synergy_efficiency)
SortKey(rule) == << rule.priority, rule.synergy_efficiency >>

\* key a orders strictly before key b under reverse=True
KeyBefore(a, b) == a[1] > b[1] \/ (a[1] = b[1] /\ a[2] > b[2])

\* the declared rules compiled one by one, in declaration order
CompiledInOrder == [k \in 1..Len(efficiency_data) |-> CompileRule(efficiency_data[k])]

\* the declaration positions a rule of the table can come from
PositionsOf(rule) == {k \in 1..Len(efficiency_data) : CompiledInOrder[k] = rule}

\* C16: the returned rule table holds exactly one compiled rule per declared
\* rule, is ordered by priority descending and then by synergy descending,
\* and rules of equal priority and synergy keep their declaration order
C16_SortedStable ==
    pc = "loaded" =>
       /\ Len(efficiency_rules) = Len(efficiency_data)
       /\ \E perm \in [1..Len(efficiency_rules) -> 1..Len(efficiency_data)] :
             /\ \A i, j \in 1..Len(efficiency_rules) : perm[i] = perm[j] => i = j
             /\ \A i \in 1..Len(efficiency_rules) :
                   efficiency_rules[i] = CompiledInOrder[perm[i]]
             /\ \A i, j \in 1..Len(efficiency_rules) :
                   (i < j /\ SortKey(efficiency_rules[i]) = SortKey(efficiency_rules[j]))
                      => perm[i] < perm[j]
       /\ \A i, j \in 1..Len(efficiency_rules) :
             i < j => ~KeyBefore(SortKey(efficiency_rules[j]), SortKey(efficiency_rules[i]))

\* a table of three rules was returned that differs from the declaration
\* order: a rule of higher priority and lower synergy first, then two distinct
\* rules of equal priority and synergy
C16_Witness ==
    /\ pc = "loaded"
    /\ Len(efficiency_rules) = 3
    /\ efficiency_rules # CompiledInOrder
    /\ efficiency_rules[1].priority > efficiency_rules[2].priority
    /\ efficiency_rules[1].synergy_efficiency < efficiency_rules[2].synergy_efficiency
    /\ SortKey(efficiency_rules[2]) = SortKey(efficiency_rules[3])
    /\ efficiency_rules[2] # efficiency_rules[3]

\* the trading, manufacturing, meeting and power rooms of a plan, which are
\* collected in the order of the workplaces
Rooms(p) == p.trading \o p.manufacture \o p.meeting \o p.power

\* C17: in every period's plan a room that received fewer operators than the
\* capacity of its workplace, down to a partially filled one, is marked auto-fill
C17_UnderfilledAutofill ==
    \A s \in 1..Len(plans) : \A i \in 1..Len(Rooms(plans[s])) :
       Len(Rooms(plans[s])[i].operators) < Workplaces[i].max_operators
          => Rooms(plans[s])[i].autofill

\* the auto-fill flag of every room of the plan is true exactly when the room
\* has no operator
AutofillIffEmpty(p) ==
    \A i \in 1..Len(Rooms(p)) : Rooms(p)[i].autofill <=> Rooms(p)[i].operators = <<>>

\* C18: in the plan of every period the auto-fill flag of a room is true
\* exactly when its operator list is empty, and the room written for a
\* workplace lists the assigned operators of its AssignmentResult in order
C18_AutofillAndNames ==
    [][/\ AutofillIffEmpty(plan')
       /\ \A s \in 1..Len(plans') : AutofillIffEmpty(plans'[s])
       /\ pc = "returned" =>
             /\ Len(Rooms(plan')) = wp
             /\ Rooms(plan')[wp].operators = result.optimal_operators
             /\ result.optimal_operators = alloc.assigned_ops
             /\ \A i \in 1..(wp - 1) : Rooms(plan')[i] = Rooms(plan)[i]
       /\ pc = "shift_end" => plans'[Len(plans')] = plan]_vars

\* a finished cycle has a plan with a partially filled room that is not
\* marked, a full room of two operators and an empty room that is marked
C18_Witness ==
    /\ pc = "done"
    /\ \E s \in 1..Len(plans) :
          /\ plans[s].trading[1].operators = <<"A", "B">>
          /\ ~plans[s].trading[1].autofill
          /\ Len(plans[s].trading[2].operators) = 1
          /\ ~plans[s].trading[2].autofill
          /\ plans[s].meeting[1].operators = <<>>
          /\ plans[s].meeting[1].autofill

\* the names the boost selector looks at: its preferred candidates and the
\* operators of the trading rules
BoostPool ==
    Range(FiammettaCandidates)
    \cup UNION {Range(efficiency_rules[k].operators) :
                  k \in {j \in 1..Len(efficiency_rules) :
                            efficiency_rules[j].workplace_type = "trading_station"}}

\* the mechanic is disabled in the configuration, or its operator or every
\* possible target is not owned at elite 2
NoBoost ==
    \/ ~config_data.Fiammetta_enable
    \/ ~("Fiammetta" \in DOMAIN operators /\ operators["Fiammetta"].own
           /\ operators["Fiammetta"].elite >= 2)
    \/ \A n \in BoostPool :
          ~(n \in DOMAIN operators /\ operators[n].own /\ operators[n].elite >= 2)

\* the plan carries no boost
PlanWithoutBoost(p) == ~p.Fiammetta.enable /\ p.Fiammetta.target = ""

\* C19: the quota-boost list is set once, before the first period, and is
\* non-empty only if the mechanic is enabled; when the mechanic is disabled or
\* no operator is eligible the list is empty, every plan has the flag false
\* and the target empty, and every operator is capped at 2 in every workplace
\* category: no operator is accepted or placed at count 2
C19_BoostList ==
    [][/\ pc # "start" => UNCHANGED << fiammetta_targets, fiammetta_enable >>
       /\ fiammetta_targets' # <<>> => config_data.Fiammetta_enable
       /\ NoBoost =>
             /\ fiammetta_targets' = <<>>
             /\ ~fiammetta_enable'
             /\ PlanWithoutBoost(plan')
             /\ \A s \in 1..Len(plans') : PlanWithoutBoost(plans'[s])
             /\ \A n \in DOMAIN operators : \A type \in WorkplaceCategories :
                   /\ MaxUsage(n, type) = 2
                   /\ DictGet(operator_usage, n, 0) >= 2 => Unavailable(n, type, {})
             /\ AppliesCandidate =>
                   \A i \in 1..Len(NewApplication.required) :
                      NewApplication.usage_before[i] < 2]_vars

\* the mechanic is enabled but no operator is eligible: the cycle finished
\* with an empty list, three plans without boost and an operator used twice
C19_Witness ==
    /\ pc = "done"
    /\ config_data.Fiammetta_enable
    /\ NoBoost
    /\ fiammetta_targets = <<>>
    /\ Len(plans) = ShiftCount
    /\ \A s \in 1..Len(plans) : PlanWithoutBoost(plans[s])
    /\ \E n \in DOMAIN operator_usage : operator_usage[n] = 2
    /\ \E k \in 1..Len(efficiency_rules) :
          efficiency_rules[k].workplace_type = "trading_station"

\* the rule belongs to a named system of the running workplace: its group is
\* not the generic group
NamedSystemRule(rule) == SystemOf(rule, CurrentType) # GenericSystem

\* a rule of a named system qualifies at this selection: every operator of its
\* group is available, the group fits the remaining capacity and the rule is
\* eligible
NamedRuleQualifies ==
    \E k \in 1..Len(AllRules(wp)) :
       LET rule == AllRules(wp)[k]
       IN /\ NamedSystemRule(rule)
          /\ \A i \in 1..Len(rule.operators) : Free(rule.operators[i])
          /\ Len(rule.operators) <= SelectionRemaining
          /\ Eligible(rule, Range(rule.operators))

\* C20: in an allocator iteration in which a rule of a named system qualifies
\* the applied candidate is a rule of a named system, whatever the per-slot
\* efficiency of the generic candidates
C20_NamedSystemFirst ==
    [][(AppliesCandidate /\ NamedRuleQualifies) => NamedSystemRule(NewApplication.rule)]_vars

\* the position of the rule in the compiled table
TablePosition(rule) ==
    CHOOSE k \in 1..Len(efficiency_rules) :
       /\ efficiency_rules[k] = rule
       /\ \A j \in 1..(k - 1) : efficiency_rules[j] # rule

\* the rule has a qualifying candidate at this selection: one operator of an
\* apply_each rule, or the whole group of another rule, that is available,
\* fits the remaining capacity and is eligible
RuleQualifies(rule) ==
    IF rule.apply_each
    THEN /\ SelectionRemaining >= 1
         /\ \E i \in 1..Len(rule.operators) :
               Free(rule.operators[i]) /\ Eligible(rule, {rule.operators[i]})
    ELSE /\ Len(rule.operators) <= SelectionRemaining
         /\ \A i \in 1..Len(rule.operators) : Free(rule.operators[i])
         /\ Eligible(rule, Range(rule.operators))

\* the candidates of the rule have the per-slot efficiency of the applied candidate
TiesWithApplied(rule) ==
    rule.synergy_efficiency * NewApplication.slots_used
       = NewApplication.efficiency * (IF rule.apply_each THEN 1 ELSE Len(rule.operators))

\* C21: when qualifying candidates tie on per-slot efficiency with the applied
\* candidate, the applied candidate is the one whose rule comes earliest in
\* the compiled table, in the first selection as in the later iterations
C21_EarliestOnTie ==
    [][AppliesCandidate =>
          \A k \in 1..Len(AllRules(wp)) :
             (RuleQualifies(AllRules(wp)[k]) /\ TiesWithApplied(AllRules(wp)[k]))
                => TablePosition(NewApplication.rule) <= TablePosition(AllRules(wp)[k])]_vars

\* the locals of the call at the point where the next selection is made
SelectionAlloc == IF pc = "optimize" THEN NewAllocation(wp) ELSE alloc

\* the number of occurrences of x in the list
Occurrences(x, list) == Cardinality({i \in 1..Len(list) : list[i] = x})

\* the step applies its candidate completely: every operator of the candidate
\* once, the slot cost, the synergy, the description and the requirement lists
AppliedCompletely ==
    LET before == SelectionAlloc
        c == NewApplication
    IN /\ \A n \in Range(c.required) :
             /\ Occurrences(n, alloc'.assigned_ops) = Occurrences(n, before.assigned_ops) + 1
             /\ operator_usage'[n] = operator_usage[n] + 1
             /\ n \in alloc'.used_names
             /\ n \in shift_used_names'
       /\ Len(alloc'.assigned_ops) = Len(before.assigned_ops) + Len(c.required)
       /\ \A n \in DOMAIN operator_usage \ Range(c.required) :
             operator_usage'[n] = operator_usage[n]
       /\ DOMAIN operator_usage' = DOMAIN operator_usage
       /\ alloc'.used_names = before.used_names \cup Range(c.required)
       /\ shift_used_names' = shift_used_names \cup Range(c.required)
       /\ alloc'.remaining_slots = before.remaining_slots - c.slots_used
       /\ alloc'.total_synergy = before.total_synergy + c.rule.synergy_efficiency
       /\ Len(alloc'.applied_combinations) = Len(before.applied_combinations) + 1
       /\ alloc'.applied_control_center_reqs
             = before.applied_control_center_reqs \o c.rule.requires_control_center
       /\ alloc'.applied_dormitory_reqs
             = before.applied_dormitory_reqs \o c.rule.requires_dormitory
       /\ alloc'.applied_power_station_reqs
             = before.applied_power_station_reqs \o c.rule.requires_power_station

\* the step of the allocator applies nothing and changes nothing
NothingApplied ==
    /\ operator_usage' = operator_usage
    /\ shift_used_names' = shift_used_names
    /\ alloc'.assigned_ops = SelectionAlloc.assigned_ops
    /\ alloc'.used_names = SelectionAlloc.used_names
    /\ alloc'.remaining_slots = SelectionAlloc.remaining_slots

\* C22: applying a candidate appends each of its operators exactly once, adds
\* it to the exclusivity set and increments its usage count by exactly 1,
\* lowers the remaining capacity by the slot cost and records synergy,
\* description and requirement lists once; a selection that applies nothing
\* changes neither the usage budget, the exclusivity set nor the assigned list
C22_AtomicApply ==
    [][/\ AppliesCandidate => AppliedCompletely
       /\ (pc \in {"optimize", "recursive"} /\ ~AppliesCandidate) => NothingApplied]_vars

\* the step folds the requirements of the result of a trading or manufacturing workplace
FoldsRequirements ==
    /\ pc = "returned"
    /\ Workplaces[wp].category \in {"trading_stations", "manufacturing_stations"}

\* the operators the step admits into the support sets of the period
Admitted ==
    (control_operators' \ control_operators) \cup (dormitory_operators' \ dormitory_operators)

\* the operators named by the requirements the step folds
Requested ==
    {result.control_center_requirements[i].operator :
        i \in 1..Len(result.control_center_requirements)}
    \cup {result.dormitory_requirements[i].operator :
             i \in 1..Len(result.dormitory_requirements)}

\* C23: the fold admits an operator named by a collected requirement only if
\* it is outside the exclusivity set and its usage count is below 2; every
\* admission adds it to the exclusivity set and increments its usage count by
\* exactly 1; an operator is in at most one support set of the period and is
\* not assigned to a workplace afterwards in that period
C23_FoldAdmission ==
    [][/\ FoldsRequirements =>
             /\ Admitted \subseteq Requested
             /\ \A n \in Admitted :
                   /\ n \notin shift_used_names
                   /\ DictGet(operator_usage, n, 0) < 2
                   /\ n \in shift_used_names'
                   /\ n \in DOMAIN operator_usage'
                   /\ operator_usage'[n] = DictGet(operator_usage, n, 0) + 1
             /\ shift_used_names' = shift_used_names \cup Admitted
             /\ \A n \in DOMAIN operator_usage \ Admitted :
                   operator_usage'[n] = operator_usage[n]
             /\ control_operators \subseteq control_operators'
             /\ dormitory_operators \subseteq dormitory_operators'
       /\ control_operators' \cap dormitory_operators' = {}
       /\ AppliesCandidate =>
             Range(NewApplication.required)
                \cap (control_operators \cup dormitory_operators) = {}]_vars

\* the category the allocator is asked for at the i-th call of a period: all
\* trading workplaces, then all manufacturing workplaces, then the meeting
\* room, then the power stations
CategoryAt(i) ==
    IF i <= trading_stations_count THEN "trading_station"
    ELSE IF i <= trading_stations_count + manufacturing_stations_count
    THEN "manufacturing_station"
    ELSE IF i = trading_stations_count + manufacturing_stations_count + 1
    THEN "meeting_room"
    ELSE "power_station"

\* C24: a cycle has exactly three periods; the usage budget is created once,
\* with every owned operator at 0, and carries over at each period boundary
\* while the exclusivity set starts empty; in a period the allocator is called
\* once per workplace: trading, manufacturing, meeting room, power stations
C24_PeriodsAndOrder ==
    [][/\ pc = "start" =>
             operator_usage' = [n \in {m \in DOMAIN operators : operators[m].own} |-> 0]
       /\ pc # "start" =>
             /\ DOMAIN operator_usage' = DOMAIN operator_usage
             /\ \A n \in DOMAIN operator_usage : operator_usage'[n] >= operator_usage[n]
       /\ pc = "shift" =>
             /\ shift < 3
             /\ Len(plans) = shift
             /\ shift_used_names' = {}
             /\ operator_usage' = operator_usage
             /\ Rooms(plan') = <<>>
             /\ pc' = "optimize" /\ wp' = 1
       /\ pc = "optimize" =>
             /\ Len(Rooms(plan)) = wp - 1
             /\ CurrentType = CategoryAt(wp)
             /\ pc' \in {"recursive", "returned"}
             /\ wp' = wp /\ plan' = plan
       /\ pc = "recursive" => (pc' \in {"recursive", "returned"} /\ wp' = wp /\ plan' = plan)
       /\ (pc = "returned" /\ pc' # "error") =>
             /\ wp' = wp + 1
             /\ Len(Rooms(plan')) = wp
             /\ pc' = (IF wp = Len(Workplaces) THEN "shift_end"
                       ELSE IF CategoryAt(wp) = "manufacturing_station"
                               /\ CategoryAt(wp + 1) = "meeting_room"
                       THEN "support" ELSE "optimize")
       /\ pc = "support" => (pc' = "optimize" /\ wp' = wp /\ Rooms(plan') = Rooms(plan))
       /\ pc = "shift_end" =>
             /\ Len(Rooms(plan)) = Len(Workplaces)
             /\ Len(plan.trading) = trading_stations_count
             /\ Len(plan.manufacture) = manufacturing_stations_count
             /\ Len(plan.meeting) = 1
             /\ shift' = shift + 1
             /\ pc' = (IF shift' = 3 THEN "done" ELSE "shift")
       /\ pc' = "done" => Len(plans') = 3]_vars

\* the second period begins: one plan is finished, the exclusivity set is
\* empty again and an operator carries its count of the first period
C24_Witness ==
    /\ pc = "optimize" /\ wp = 1 /\ shift = 1
    /\ Len(plans) = 1
    /\ shift_used_names = {}
    /\ \E n \in DOMAIN operator_usage : operator_usage[n] = 1
    /\ \E n \in DOMAIN operators : ~operators[n].own

\* C25: every applied rule has the category of the workplace it is applied to
\* and a product-tag set that is empty or contains the current product of the
\* workplace; a rule with product tags is never applied to a workplace
\* without product tag
C25_CategoryAndProduct ==
    \A k \in 1..Len(Applications) :
       LET rule == Applications[k].rule
       IN /\ rule.workplace_type = CurrentType
          /\ Len(rule.products) = 0
                \/ \E i \in 1..Len(rule.products) : rule.products[i] = current_product[wp]
          /\ current_product[wp] = "" => rule.products = <<>>

\* the second trading workplace has no product tag and stays empty although a
\* rule tagged with a product has its operator free and is eligible, after the
\* first trading workplace was filled by another rule
C25_Witness ==
    /\ pc = "returned" /\ wp = 2
    /\ current_product[1] = "LMD" /\ current_product[2] = ""
    /\ result.optimal_operators = <<>>
    /\ Len(plan.trading) = 1 /\ Len(plan.trading[1].operators) = 2
    /\ \E k \in 1..Len(efficiency_rules) :
          /\ efficiency_rules[k].workplace_type = "trading_station"
          /\ efficiency_rules[k].products = <<"LMD">>
          /\ \A i \in 1..Len(efficiency_rules[k].operators) :
                Free(efficiency_rules[k].operators[i])
          /\ Eligible(efficiency_rules[k], Range(efficiency_rules[k].operators))

\* the number of items the first j entries of a mapping contribute to the
\* expanded sequence: a count below 1 contributes nothing
RECURSIVE ItemsUpTo(_, _)
ItemsUpTo(mapping, j) ==
    IF j = 0 THEN 0
    ELSE ItemsUpTo(mapping, j - 1)
         + (IF mapping[j].count > 0 THEN mapping[j].count ELSE 0)

\* the i-th element of the expanded mapping, "" beyond its end
ExpandedAt(mapping, i) ==
    IF i > ItemsUpTo(mapping, Len(mapping)) THEN ""
    ELSE LET j == CHOOSE k \in 1..Len(mapping) :
                     ItemsUpTo(mapping, k - 1) < i /\ i <= ItemsUpTo(mapping, k)
         IN mapping[j].product

\* the position of workplace w among the instances of its category
InstanceIndex(w) ==
    Cardinality({k \in 1..w : Workplaces[k].category = Workplaces[w].category})

\* the product tag the requested quantities give workplace w
RequestedTag(w) ==
    IF Workplaces[w].category \in {"trading_stations", "manufacturing_stations"}
    THEN ExpandedAt(RequestedProducts(config_data)[Workplaces[w].category], InstanceIndex(w))
    ELSE ""

\* C26: once the cycle has started, in every period, the product tag of the
\* i-th trading or manufacturing instance is the i-th element of the expanded
\* requested-quantity mapping and is empty beyond it, and the rooms of the
\* plans carry the same tags
C26_ProductTags ==
    pc # "start" =>
       /\ \A w \in 1..Len(Workplaces) : current_product[w] = RequestedTag(w)
       /\ \A s \in 1..Len(plans) :
             /\ \A i \in 1..Len(plans[s].trading) :
                   plans[s].trading[i].product = RequestedTag(i)
             /\ \A i \in 1..Len(plans[s].manufacture) :
                   plans[s].manufacture[i].product = RequestedTag(trading_stations_count + i)

\* three periods planned under a mapping that asks for two of the first
\* product and one of the second, with two trading instances
C26_Witness ==
    /\ pc = "done" /\ Len(plans) = 3
    /\ "product_requirements" \in DOMAIN config_data
    /\ config_data.product_requirements.trading_stations
          = <<Quantity("LMD", 2), Quantity("Orundum", 1)>>
    /\ config_data.product_requirements.manufacturing_stations = <<>>
    /\ \A s \in 1..3 :
          /\ plans[s].trading[1].product = "LMD"
          /\ plans[s].trading[2].product = "LMD"
          /\ plans[s].manufacture[1].product = ""

\* the positions of a token list that give name n a tier above 0
TierPositions(tokens, n) ==
    {i \in 1..Len(tokens) : tokens[i].name = n /\ tokens[i].tier > 0}

\* the largest position of a non-empty set of positions
LastPosition(positions) == CHOOSE i \in positions : \A j \in positions : j <= i

\* the tier of the last token of the list that gives name n a tier above 0
LastTier(tokens, n) == tokens[LastPosition(TierPositions(tokens, n))].tier

\* the compiled rule r is what the claim says of the structured declaration d
StructuredAsDeclared(d, r) ==
    /\ Len(r.operators) = Len(d.base_combo) + Len(d.combo)
    /\ \A i \in 1..Len(d.base_combo) : r.operators[i] = d.base_combo[i].name
    /\ \A i \in 1..Len(d.combo) : r.operators[Len(d.base_combo) + i] = d.combo[i].name
    /\ \A n \in {"A", "B", "C", "Proviso", "Shamare", "Tequila"} :
          IF TierPositions(d.combo, n) # {}
          THEN n \in DOMAIN r.elite_requirements
               /\ r.elite_requirements[n] = LastTier(d.combo, n)
          ELSE IF TierPositions(d.base_combo, n) # {}
          THEN n \in DOMAIN r.elite_requirements
               /\ r.elite_requirements[n] = LastTier(d.base_combo, n)
          ELSE n \notin DOMAIN r.elite_requirements
    /\ r.products = IF d.has_product THEN d.product ELSE d.base_product

\* C27: while the rule table is being compiled, the rule compiled from a
\* rule of a structured system entry has the base combination followed by
\* the sub-rule combination as its core group, the base tier overrides
\* overwritten by those of the sub-rule as its tier overrides, none for a
\* token without tier, and the base product tags when the sub-rule has none
C27_StructuredEntry ==
    pc = "load" =>
       \A k \in 1..Len(efficiency_rules) :
          efficiency_data[k].form = "dict"
             => StructuredAsDeclared(efficiency_data[k], efficiency_rules[k])

\* compiled: a sub-rule that lowers the tier the base combination gives
\* Proviso and inherits the product tag of the system
C27_Witness ==
    /\ pc = "load"
    /\ \E k \in 1..Len(efficiency_rules) :
          /\ efficiency_data[k].form = "dict"
          /\ efficiency_data[k].base_combo = ProvisoBase
          /\ efficiency_data[k].combo = <<TokTier("Proviso", 1)>>
          /\ efficiency_rules[k].operators = <<"Proviso", "Tequila", "Proviso">>
          /\ efficiency_rules[k].elite_requirements["Proviso"] = 1
          /\ "Tequila" \notin DOMAIN efficiency_rules[k].elite_requirements
          /\ efficiency_rules[k].products = <<"LMD">>

\* the rules of the table that belong to the trading category
TradingRules == SelectSeq(efficiency_rules, LAMBDA r : r.workplace_type = "trading_station")

\* the product of the group sizes of the first k trading rules
RECURSIVE SizeProduct(_)
SizeProduct(k) == IF k = 0 THEN 1 ELSE SizeProduct(k - 1) * Len(TradingRules[k].operators)

\* the sum over the first k trading rules that name n of synergy / group size,
\* as a multiple of 1 / SizeProduct(Len(TradingRules))
RECURSIVE SummedShare(_, _)
SummedShare(n, k) ==
    IF k = 0 THEN 0
    ELSE SummedShare(n, k - 1)
         + Occurrences(n, TradingRules[k].operators)
           * TradingRules[k].synergy_efficiency
           * (SizeProduct(Len(TradingRules)) \div Len(TradingRules[k].operators))

\* the score the ranking gives operator n
RankScore(n) == SummedShare(n, Len(TradingRules))

\* the members of the preference list owned at elite 2 or more
Preferred ==
    {n \in {"Shamare", "Tequila", "Proviso"} :
        n \in DOMAIN operators /\ operators[n].own /\ operators[n].elite >= 2}

\* the operators the ranking can add: named by a trading rule, owned at elite 2
\* or more, not preferred
Rankable ==
    {n \in DOMAIN operators :
        /\ operators[n].own /\ operators[n].elite >= 2
        /\ n \notin Preferred
        /\ \E k \in 1..Len(TradingRules) : InList(n, TradingRules[k].operators)}

\* the selector has been called and its result assigned
TargetsSelected == pc # "start" /\ config_data.Fiammetta_enable /\ check_fiammetta_available

\* C28: the list the boost selector returns has at most 3 distinct names, each
\* owned at elite 2 or more; it starts with the preferred operators in the
\* order of the preference list; only if these are fewer than 3 it goes on with
\* operators of trading rules, not preferred, in descending order of their
\* summed synergy / group size, the best ranked ones, as many as fit
C28_BoostTargets ==
    TargetsSelected =>
       LET T == fiammetta_targets
           np == Cardinality(Preferred)
       IN /\ Len(T) <= 3
          /\ NoDuplicates(T)
          /\ \A i \in 1..Len(T) :
                T[i] \in DOMAIN operators /\ operators[T[i]].own /\ operators[T[i]].elite >= 2
          /\ Len(T) >= np
          /\ SubSeq(T, 1, np) = SelectSeq(<<"Shamare", "Tequila", "Proviso">>,
                                          LAMBDA n : n \in Preferred)
          /\ np >= 3 => Len(T) = np
          /\ \A i \in (np + 1)..Len(T) : T[i] \in Rankable
          /\ \A i \in (np + 1)..(Len(T) - 1) : RankScore(T[i]) >= RankScore(T[i + 1])
          /\ \A n \in Rankable \ Range(T) :
                /\ Len(T) = 3
                /\ \A i \in (np + 1)..Len(T) : RankScore(T[i]) >= RankScore(n)

\* one preferred operator, followed by the two best ranked of three rankable
\* operators with different scores
C28_Witness ==
    /\ TargetsSelected
    /\ Cardinality(Preferred) = 1
    /\ Cardinality(Rankable) = 3
    /\ Len(fiammetta_targets) = 3
    /\ RankScore(fiammetta_targets[2]) > RankScore(fiammetta_targets[3])
    /\ \E n \in Rankable \ Range(fiammetta_targets) :
          RankScore(fiammetta_targets[3]) > RankScore(n)

\* the sum of the synergy values of the rules of the first k applications
RECURSIVE SynergyOfApplications(_)
SynergyOfApplications(k) ==
    IF k = 0 THEN 0
    ELSE SynergyOfApplications(k - 1) + Applications[k].rule.synergy_efficiency

\* the description recorded for application k: that of its rule, followed by
\* the operator in parentheses when the rule was applied to one of its operators
DescriptionOfApplication(k) ==
    IF Applications[k].type \in {"generic_each", "each"}
    THEN Applications[k].rule.description
         \o <<"(">> \o JoinNames(Applications[k].required) \o <<")">>
    ELSE Applications[k].rule.description

\* C29: the AssignmentResult a call returns has as synergy the sum of the
\* synergy values of the applications of the call, as total efficiency the
\* base efficiency of the workplace plus that synergy, one description per
\* application in application order, and as each requirement list the
\* concatenation of the lists of the applied rules
C29_ResultOfApplications ==
    pc = "returned" =>
       /\ result.operator_efficiency = SynergyOfApplications(Len(Applications))
       /\ result.total_efficiency
             = Workplaces[wp].base_efficiency + SynergyOfApplications(Len(Applications))
       /\ result.applied_combinations
             = [k \in 1..Len(Applications) |-> DescriptionOfApplication(k)]
       /\ result.control_center_requirements
             = Flatten([k \in 1..Len(Applications) |->
                           Applications[k].rule.requires_control_center])
       /\ result.dormitory_requirements
             = Flatten([k \in 1..Len(Applications) |->
                           Applications[k].rule.requires_dormitory])
       /\ result.power_station_requirements
             = Flatten([k \in 1..Len(Applications) |->
                           Applications[k].rule.requires_power_station])

\* a call returned after two applications, the first of a rule with a
\* control-center requirement in the first selection, the second in the loop
C29_Witness ==
    /\ pc = "returned"
    /\ Len(Applications) = 2
    /\ Applications[1].phase # Applications[2].phase
    /\ Applications[1].rule.requires_control_center # <<>>
    /\ Applications[2].rule.synergy_efficiency > 0
    /\ result.operator_efficiency
          = Applications[1].rule.synergy_efficiency + Applications[2].rule.synergy_efficiency
    /\ Len(result.control_center_requirements)
          = Len(Applications[1].rule.requires_control_center)

\* at this selection a rule of positive synergy has a candidate whose operators
\* are free, fit the remaining capacity and pass the checks of every selection
PositiveQualifies ==
    \E j \in 1..Len(AllRules(wp)) :
       LET rule == AllRules(wp)[j]
       IN /\ rule.synergy_efficiency > 0
          /\ IF rule.apply_each
             THEN \E n \in Range(rule.operators) :
                     SelectionRemaining >= 1 /\ Free(n) /\ Checked(rule, {n})
             ELSE /\ Len(rule.operators) <= SelectionRemaining
                  /\ \A n \in Range(rule.operators) : Free(n)
                  /\ Checked(rule, Range(rule.operators))

\* C30: every applied candidate has a per-slot efficiency above zero, so its
\* rule has a positive synergy; a selection at which no qualifying candidate
\* scores above zero applies nothing, leaves the usage budget, the exclusivity
\* set and the synergy as they were, and in the loop ends the call
C30_PositiveOnly ==
    [][/\ AppliesCandidate =>
             /\ NewApplication.efficiency > 0
             /\ NewApplication.rule.synergy_efficiency > 0
             /\ alloc'.total_synergy > SelectionAlloc.total_synergy
       /\ (pc \in {"optimize", "recursive"} /\ ~PositiveQualifies) =>
             /\ alloc'.applications = SelectionAlloc.applications
             /\ alloc'.assigned_ops = SelectionAlloc.assigned_ops
             /\ alloc'.total_synergy = SelectionAlloc.total_synergy
             /\ UNCHANGED << operator_usage, shift_used_names >>
             /\ pc' \in {"recursive", "returned"}
             /\ pc = "recursive" => pc' = "returned"]_vars

\* a call returned with capacity left after one application, while a rule of
\* synergy zero or below still had its operators free and passed the checks
C30_Witness ==
    /\ pc = "returned"
    /\ Len(Applications) = 1
    /\ alloc.remaining_slots > 0
    /\ result.operator_efficiency = Applications[1].rule.synergy_efficiency
    /\ \E j \in 1..Len(AllRules(wp)) :
          LET rule == AllRules(wp)[j]
          IN /\ rule.synergy_efficiency <= 0
             /\ Len(rule.operators) <= alloc.remaining_slots
             /\ \A n \in Range(rule.operators) : Free(n)
             /\ Checked(rule, Range(rule.operators))

\* the target of period p (0, 1, 2) under round-robin over the boost list
RoundRobinTarget(p) ==
    IF Len(fiammetta_targets) = 0 THEN ""
    ELSE fiammetta_targets[(p % Len(fiammetta_targets)) + 1]

\* C31: the plan of period p names as target the element of the boost list
\* at index p modulo the length of the list, the empty string when the list
\* is empty, hence a member of the list whenever the list is not empty; this
\* holds for the plans collected so far and for the plan of the running period
C31_RoundRobinTarget ==
    /\ \A s \in 1..Len(plans) :
          /\ plans[s].Fiammetta.target = RoundRobinTarget(s - 1)
          /\ fiammetta_targets # <<>> => InList(plans[s].Fiammetta.target, fiammetta_targets)
    /\ pc \in {"optimize", "recursive", "returned", "support", "shift_end"} =>
          /\ plan.Fiammetta.target = RoundRobinTarget(shift)
          /\ fiammetta_targets # <<>> => InList(plan.Fiammetta.target, fiammetta_targets)

\* three periods planned with a boost list of two names: the third period
\* names the first of them again
C31_Witness ==
    /\ pc = "done" /\ Len(plans) = 3
    /\ Len(fiammetta_targets) = 2
    /\ plans[1].Fiammetta.target = fiammetta_targets[1]
    /\ plans[2].Fiammetta.target = fiammetta_targets[2]
    /\ plans[3].Fiammetta.target = fiammetta_targets[1]
    /\ fiammetta_targets[1] # fiammetta_targets[2]

\* the operators in the assigned lists of the workplaces of a plan
AssignedIn(p) == Range(Flatten(RoomLists(p)))

\* no operator is in the lists of two different rooms of the list of lists
RoomsDisjoint(lists) ==
    \A i, j \in 1..Len(lists) : i # j => Range(lists[i]) \cap Range(lists[j]) = {}

\* C32: in every period the control-center set, the dormitory set and the set
\* of operators assigned to workplaces are pairwise disjoint, and no operator
\* is in the lists of two workplaces: in the running period, on its sets and
\* on the call in progress, and in every plan collected so far
C32_RoomsDisjoint ==
    /\ control_operators \cap dormitory_operators = {}
    /\ control_operators \cap (AssignedIn(plan) \cup Range(alloc.assigned_ops)) = {}
    /\ dormitory_operators \cap (AssignedIn(plan) \cup Range(alloc.assigned_ops)) = {}
    /\ Range(plan.control) \cap Range(plan.dormitory) = {}
    /\ (Range(plan.control) \cup Range(plan.dormitory)) \cap AssignedIn(plan) = {}
    /\ RoomsDisjoint(Append(RoomLists(plan), alloc.assigned_ops))
    /\ \A s \in 1..Len(plans) :
          /\ Range(plans[s].control) \cap Range(plans[s].dormitory) = {}
          /\ Range(plans[s].control) \cap AssignedIn(plans[s]) = {}
          /\ Range(plans[s].dormitory) \cap AssignedIn(plans[s]) = {}
          /\ RoomsDisjoint(RoomLists(plans[s]))

\* the product rooms of a period are collected: A is in the manufacturing
\* station, whose rule names A and B for the dormitory, only B is in the
\* dormitory set, and the control-center set is not empty
C32_Witness ==
    /\ pc = "support"
    /\ InList("A", plan.manufacture[1].operators)
    /\ dormitory_operators = {"B"}
    /\ control_operators # {}
    /\ AssignedIn(plan) \cap {"B"} = {}

\* the operators placed in some room of a plan: a workplace, the control
\* center or the dormitory
PlacedIn(p) == AssignedIn(p) \cup Range(p.control) \cup Range(p.dormitory)

\* the number of collected plans in which operator n is placed in some room
PeriodsPlaced(n) == Cardinality({s \in 1..Len(plans) : n \in PlacedIn(plans[s])})

\* C33: at the end of every period the usage count of every operator is the
\* number of periods so far in which the operator was placed in some room
C33_UsageCountsPeriods ==
    pc \in {"shift", "done"} =>
       \A n \in DOMAIN operator_usage : operator_usage[n] = PeriodsPlaced(n)

\* the first requirement of the list that names operator n
FirstNaming(reqs, n) ==
    reqs[CHOOSE i \in 1..Len(reqs) :
            reqs[i].operator = n /\ \A j \in 1..(i - 1) : reqs[j].operator # n]

\* operator n is in the catalog, owned and at the tier asked by the first
\* requirement of the list that names it
MeetsRequirement(reqs, n) ==
    /\ n \in DOMAIN operators
    /\ operators[n].own
    /\ \E i \in 1..Len(reqs) : reqs[i].operator = n
    /\ operators[n].elite >= FirstNaming(reqs, n).elite_required

\* the fold of the requirements of a returned result admits only operators
\* that meet the requirement naming them
AdmitsQualifiedOnly ==
    (pc = "returned"
     /\ Workplaces[wp].category \in {"trading_stations", "manufacturing_stations"})
    => /\ \A n \in control_operators' \ control_operators :
             MeetsRequirement(result.control_center_requirements, n)
       /\ \A n \in dormitory_operators' \ dormitory_operators :
             MeetsRequirement(result.dormitory_requirements, n)

\* C34: every operator admitted into the control-center or dormitory set of a
\* period is in the catalog, owned and at least at the tier of the requirement
\* that admitted it, whichever selection applied the rule
C34_AdmittedQualified == [][AdmitsQualifiedOnly]_vars

====
